---------------------------- MODULE Spec2Model ----------------------------
(***************************************************************************)
(* Model of the mail-vault synchronisation core (src-tauri/src):           *)
(*   - imap/pool.rs : ImapPool, two keyed stores of idle IMAP sessions,    *)
(*                    each behind one tokio Mutex;                         *)
(*   - commands.rs  : with_background / with_priority, imap_disconnect;    *)
(*   - archive.rs   : run (semaphore-bounded JoinSet of per-UID tasks,     *)
(*                    cooperative cancellation) and fetch_and_store;       *)
(*   - main.rs      : archive_emails / cancel_archive.                     *)
(*                                                                         *)
(* Every await point that touches shared state is one step of a thread.    *)
(* A MutexGuard created in the scrutinee of an `if let` is a temporary     *)
(* that lives until the end of the `if let` statement, so the lock stays   *)
(* held through the body whenever the pattern matched.                     *)
(***************************************************************************)
EXTENDS Integers, Sequences, FiniteSets, TLC

\* ------------------------------------------------------------------ bounds
NumCallers == 2
MaxSessions == 2
MaxUids == 4
MixedUids == 1
ProgressUids == 3
MaxFlags == 3
MaxCodecUid == 12
MaxStoreUid == 1
MaxContent == 2
MaxExists == 4
MaxPage == 3

\* ------------------------------------------------------- program constants
\* Semaphore::new(3)
SemPermits == 3

\* ---------------------------------------------------------------- universe
Callers == 1..NumCallers
Tasks == {100 + i : i \in 1..MaxUids}
Threads == Callers \cup Tasks
NoThread == 0
\* Names of the sessions create_imap_session makes: a command's session is
\* numbered by a counter, an archive task's (it makes at most one) is named
\* after the task.
Sessions == (1..MaxSessions) \cup Tasks
NoSession == 0

\* ImapConfig values (only the fields that form the pool identity).
Accounts ==
  { [email |-> <<"a">>, host |-> <<"h">>],
    [email |-> <<"b">>, host |-> <<"h">>] }
NoAccount == [email |-> <<>>, host |-> <<>>]
\* The account every archive run of the model is started for.
ArchiveAccount == [email |-> <<"a">>, host |-> <<"h">>]

\* format!("{}-{}", config.email, config.host)
conn_key(config) == config.email \o <<"-">> \o config.host

\* The two fields of ImapPool, in the order disconnect / disconnect_all visit them.
PoolOrder == <<"background", "priority">>
PoolNames == {"background", "priority"}

VARIABLES
  imapPool,   \* [background, priority]: each a HashMap, as a set of [key, sid]
  lockOwner,  \* [PoolNames -> thread holding that pool's Mutex, or NoThread]
  nextSid,    \* id the next session made by create_imap_session gets
  loggedOut,  \* sessions on which logout() was called
  opFailed,   \* sessions on which a borrowed protocol operation returned Err
  pc,         \* [Threads -> position of the thread in its async fn]
  loc,        \* [Threads -> locals: kind (pool), account, session, drained]
  runPc,      \* position of archive::run
  total,      \* uids.len()
  spawned,    \* number of loop iterations of run that spawned a task
  cancel,     \* the AtomicBool behind ArchiveCancelToken
  sem,        \* permits available in run's Semaphore
  completed,  \* AtomicUsize
  errors,     \* AtomicUsize
  progress,   \* payload of the latest "archive-progress" event
  result,     \* what run returned
  tloc,       \* [Tasks -> a task's locals c, e, is_cancelled]
  codec,      \* a call sequence build_maildir_filename / parse_flags_from_filename
  maildir,    \* the files of one Maildir cur directory, as [name, content]
  storeOp,    \* the latest maildir_* call: its arguments and what it returned
  mailbox,    \* the selected mailbox on the server
  pageOp,     \* the latest fetch_emails_page / fetch_emails_range call
  scroll,     \* a client loading pages 1, 2, .. with one limit: what it has
  att,        \* a message's part tree and what the two classifiers said
  server,     \* the messages of a mailbox on the server, the latest command
              \* of the application on it and what it sent
  listing,    \* list_mailboxes: the listing `all`, how many of its entries
              \* the tree loop has taken, and `result`
  created     \* [Sessions -> what create_imap_session made the session with:
              \* the config it logged in as; by / evicted: the disconnect
              \* that began, and whether one returned, since it was made]

poolVars == <<imapPool, lockOwner, nextSid, loggedOut, opFailed>>
threadVars == <<pc, loc>>
archVars == <<runPc, total, spawned, cancel, sem, completed, errors,
              progress, result>>
coreVars == <<imapPool, lockOwner, nextSid, loggedOut, opFailed, pc, loc,
              runPc, total, spawned, cancel, sem, completed, errors,
              progress, result>>
\* State of the parts of the program beside the pool and the coarse archive run.
pureVars ==
  <<codec, maildir, storeOp, mailbox, pageOp, scroll, att, server, listing,
    created>>
auxVars == <<tloc, pureVars>>
vars == <<coreVars, auxVars>>

\* ------------------------------------------------------------ HashMap model
\* HashMap::get: the session stored under k, or NoSession.
MapGet(m, k) ==
  IF \E e \in m : e.key = k THEN (CHOOSE e \in m : e.key = k).sid ELSE NoSession

\* HashMap::remove: the map without k's entry.
MapRemove(m, k) == {e \in m : e.key # k}

\* HashMap::insert: k's entry replaced (the old value is handed back by MapGet).
MapInsert(m, k, s) == MapRemove(m, k) \cup {[key |-> k, sid |-> s]}

\* Sessions idle in a store.
IdleIn(kind) == {e.sid : e \in imapPool[kind]}
Idle == IdleIn("background") \cup IdleIn("priority")

\* ------------------------------------------------------------ thread locals
NoLoc == [kind |-> "none", account |-> NoAccount, session |-> NoSession,
          drained |-> {}]
NoProgress == [total |-> 0, completed |-> 0, errors |-> 0, active |-> FALSE]
NoTLoc == [c |-> 0, e |-> 0, is_cancelled |-> FALSE]

\* Where a thread continues when get_from_pool returned Ok(session): the
\* closure f of with_* for a command, fetch_email_by_uid for an archive task.
GetOkPc(th) == IF th \in Callers THEN "f" ELSE "fetch"
\* ... when get_from_pool returned Err (the `?` of with_* / fetch_and_store).
GetErrPc(th) == IF th \in Callers THEN "idle" ELSE "count_err"
\* ... when return_to_pool is done.
RetDonePc(th) == IF th \in Callers THEN "idle" ELSE "persist"

Release(kind) == [lockOwner EXCEPT ![kind] = NoThread]


\* ------------------------------------------------------------------- Init
InitCore ==
  /\ imapPool = [background |-> {}, priority |-> {}]
  /\ lockOwner = [k \in PoolNames |-> NoThread]
  /\ nextSid = 1
  /\ loggedOut = {}
  /\ opFailed = {}
  /\ pc = [th \in Threads |-> IF th \in Callers THEN "idle" ELSE "unspawned"]
  /\ loc = [th \in Threads |-> NoLoc]
  /\ runPc = "idle"
  /\ total = 0
  /\ spawned = 0
  /\ cancel = FALSE
  /\ sem = SemPermits
  /\ completed = 0
  /\ errors = 0
  /\ progress = NoProgress
  /\ result = [NoProgress EXCEPT !.total = 0] @@ [tag |-> "none"]

\* No task has loaded anything yet.
InitTLoc == tloc = [t \in Tasks |-> NoTLoc]

\* Nothing was encoded, stored, fetched or classified yet.
NoCodec == [stage |-> "none", uid |-> 0, flags |-> <<>>, filename |-> <<>>,
            decoded |-> <<>>, rebuilt |-> <<>>]
InitCodec == codec = NoCodec
NoStoreOp == [op |-> "none", uid |-> 0, flags |-> <<>>, content |-> 0,
              found |-> <<>>, res |-> "none"]
InitStore == maildir = {} /\ storeOp = NoStoreOp
NoPageOp == [op |-> "none", a |-> <<0, 0>>, b |-> <<0, 0>>, res |-> "none",
             range |-> <<>>, emails |-> <<>>, total |-> 0, has_more |-> FALSE,
             skipped |-> <<>>]
NoScroll == [limit |-> 0, k |-> 0, loaded |-> {}, disjoint |-> TRUE]
InitPage ==
  /\ mailbox = [exists |-> 0, bad |-> {}, order |-> <<>>, lost |-> {}]
  /\ pageOp = NoPageOp
  /\ scroll = NoScroll
InitAtt == att = [stage |-> "none"]

InitServer == server = [stage |-> "none"]

\* No session was made yet.
NotCreated == [config |-> NoAccount, by |-> NoThread, evicted |-> FALSE]
InitCreated == created = [s \in Sessions |-> NotCreated]

\* No listing was taken yet.
InitListing == listing = [all |-> <<>>, next |-> 1, result |-> <<>>]

InitAux ==
  /\ InitTLoc /\ InitCodec /\ InitStore /\ InitPage /\ InitAtt /\ InitServer
  /\ InitCreated /\ InitListing

Init == InitCore /\ InitAux

\* ------------------------------------------------- ImapPool::get_from_pool
\* GetRemove with `get` in the place of `remove`: the entry stays in the map.
GetRemove_KeepsEntry(th, kind, account) ==
  /\ lockOwner[kind] = NoThread
  /\ LET s == MapGet(imapPool[kind], conn_key(account)) IN
       /\ imapPool' = imapPool
       /\ loc' = [loc EXCEPT ![th] =
                    [NoLoc EXCEPT !.kind = kind, !.account = account, !.session = s]]
       /\ IF s # NoSession
            THEN /\ lockOwner' = [lockOwner EXCEPT ![kind] = th]
                 /\ pc' = [pc EXCEPT ![th] = "noop"]
            ELSE /\ lockOwner' = lockOwner
                 /\ pc' = [pc EXCEPT ![th] = "create"]
  /\ UNCHANGED <<nextSid, loggedOut, opFailed>>

\* `if let Some(mut session) = pool.lock().await.remove(&key)`: the lock is
\* taken and the key's entry removed; when an entry was there the guard stays
\* alive for the body (noop, logout), otherwise it is dropped at once.
GetRemove(th, kind, account) ==
  /\ lockOwner[kind] = NoThread
  /\ LET s == MapGet(imapPool[kind], conn_key(account)) IN
       /\ imapPool' = [imapPool EXCEPT ![kind] = MapRemove(@, conn_key(account))]
       /\ loc' = [loc EXCEPT ![th] =
                    [NoLoc EXCEPT !.kind = kind, !.account = account, !.session = s]]
       /\ IF s # NoSession
            THEN /\ lockOwner' = [lockOwner EXCEPT ![kind] = th]
                 /\ pc' = [pc EXCEPT ![th] = "noop"]
            ELSE /\ lockOwner' = lockOwner
                 /\ pc' = [pc EXCEPT ![th] = "create"]
  /\ UNCHANGED <<nextSid, loggedOut, opFailed>>

\* Noop handing the stale session back after its logout.
Noop_ReturnsStale(th) ==
  /\ pc[th] = "noop"
  /\ \/ /\ pc' = [pc EXCEPT ![th] = GetOkPc(th)]
        /\ UNCHANGED <<loggedOut, loc>>
     \/ /\ loggedOut' = loggedOut \cup {loc[th].session}
        /\ loc' = loc
        /\ pc' = [pc EXCEPT ![th] = GetOkPc(th)]
  /\ lockOwner' = Release(loc[th].kind)
  /\ UNCHANGED <<imapPool, nextSid, opFailed, archVars>>

\* session.noop().await inside the `if let` body; on Err the session is
\* logged out (`let _ = session.logout().await`) before the `if let` ends and
\* the session and the guard are dropped.
Noop(th) ==
  /\ pc[th] = "noop"
  /\ \/ \* Ok(_) => return Ok(session)
        /\ pc' = [pc EXCEPT ![th] = GetOkPc(th)]
        /\ UNCHANGED <<loggedOut, loc>>
     \/ \* Err(e) => logout, fall through to the creation
        /\ loggedOut' = loggedOut \cup {loc[th].session}
        /\ loc' = [loc EXCEPT ![th].session = NoSession]
        /\ pc' = [pc EXCEPT ![th] = "create"]
  /\ lockOwner' = Release(loc[th].kind)
  /\ UNCHANGED <<imapPool, nextSid, opFailed, archVars>>

\* create_imap_session(config).await.map_err(..)?
Create(th) ==
  /\ pc[th] = "create"
  /\ \/ \* Ok(session)
        /\ th \in Callers => nextSid <= MaxSessions
        /\ loc' = [loc EXCEPT ![th].session = IF th \in Callers THEN nextSid ELSE th]
        /\ nextSid' = IF th \in Callers THEN nextSid + 1 ELSE nextSid
        /\ pc' = [pc EXCEPT ![th] = GetOkPc(th)]
     \/ \* Err(e): get_from_pool returns Err, and so does its caller (`?`)
        /\ loc' = [loc EXCEPT ![th] = NoLoc]
        /\ nextSid' = nextSid
        /\ pc' = [pc EXCEPT ![th] = GetErrPc(th)]
  /\ UNCHANGED <<imapPool, lockOwner, loggedOut, opFailed, archVars>>

\* ReturnToPool dropping the displaced session without a logout.
ReturnToPool_NoLogout(th) ==
  /\ lockOwner[loc[th].kind] = NoThread
  /\ imapPool' = [imapPool EXCEPT ![loc[th].kind] =
                    MapInsert(@, conn_key(loc[th].account), loc[th].session)]
  /\ lockOwner' = lockOwner
  /\ loc' = [loc EXCEPT ![th] = NoLoc]
  /\ pc' = [pc EXCEPT ![th] = RetDonePc(th)]

\* ------------------------------------------------ ImapPool::return_to_pool
\* `if let Some(mut old) = pool.lock().await.insert(key, session)`: the
\* session goes into the slot; a displaced session is kept, with the guard,
\* for the logout in the body.
ReturnToPool(th) ==
  /\ lockOwner[loc[th].kind] = NoThread
  /\ LET kind == loc[th].kind
         key == conn_key(loc[th].account)
         old == MapGet(imapPool[kind], key)
     IN
       /\ imapPool' = [imapPool EXCEPT ![kind] = MapInsert(@, key, loc[th].session)]
       /\ IF old # NoSession
            THEN /\ lockOwner' = [lockOwner EXCEPT ![kind] = th]
                 /\ loc' = [loc EXCEPT ![th].session = old]
                 /\ pc' = [pc EXCEPT ![th] = "ret_logout"]
            ELSE /\ lockOwner' = lockOwner
                 /\ loc' = [loc EXCEPT ![th] = NoLoc]
                 /\ pc' = [pc EXCEPT ![th] = RetDonePc(th)]

\* let _ = old.logout().await; then the guard drops.
RetLogout(th) ==
  /\ pc[th] = "ret_logout"
  /\ loggedOut' = loggedOut \cup {loc[th].session}
  /\ lockOwner' = Release(loc[th].kind)
  /\ loc' = [loc EXCEPT ![th] = NoLoc]
  /\ pc' = [pc EXCEPT ![th] = RetDonePc(th)]
  /\ UNCHANGED <<imapPool, nextSid, opFailed, archVars>>

\* --------------------------------------- with_background / with_priority
\* pool.get_background(account) / pool.get_priority(account)
WithStart(th, kind, account) ==
  /\ th \in Callers
  /\ pc[th] = "idle"
  /\ GetRemove(th, kind, account)
  /\ UNCHANGED archVars

\* WithErr putting the session back although the operation failed.
WithErr_Returns(th) ==
  /\ opFailed' = opFailed \cup {loc[th].session}
  /\ ReturnToPool(th)

\* The Err arm of `match f(session).await`: the closure took the session and
\* did not hand it back, so it is dropped; nothing is returned to the pool.
WithErr(th) ==
  /\ opFailed' = opFailed \cup {loc[th].session}
  /\ loc' = [loc EXCEPT ![th] = NoLoc]
  /\ pc' = [pc EXCEPT ![th] = "idle"]
  /\ UNCHANGED <<imapPool, lockOwner>>

\* match f(session).await
OpDone(th) ==
  /\ th \in Callers
  /\ pc[th] = "f"
  /\ \/ \* Ok((result, session)) => pool.return_*(account, session)
        /\ ReturnToPool(th)
        /\ UNCHANGED opFailed
     \/ \* Err(e) => Err(e)
        WithErr(th)
  /\ UNCHANGED <<nextSid, loggedOut, archVars>>

\* ---------------------------------------------------- ImapPool::disconnect
\* The store visited after `kind` by `for pool in [&self.background, &self.priority]`.
NextKind(kind) == IF kind = PoolOrder[1] THEN PoolOrder[2] ELSE "none"

\* The loop moves on from `kind`: to the next store, or the function returns.
LoopOn(th, kind, account, startPc) ==
  IF NextKind(kind) # "none"
    THEN /\ pc' = [pc EXCEPT ![th] = startPc]
         /\ loc' = [loc EXCEPT ![th] =
                      [NoLoc EXCEPT !.kind = NextKind(kind), !.account = account]]
    ELSE /\ pc' = [pc EXCEPT ![th] = "idle"]
         /\ loc' = [loc EXCEPT ![th] = NoLoc]

\* DiscRemove clearing the whole store instead of the account's entry.
DiscRemove_Clears(th, kind, account) ==
  /\ lockOwner[kind] = NoThread
  /\ LET s == MapGet(imapPool[kind], conn_key(account)) IN
       /\ imapPool' = [imapPool EXCEPT ![kind] = {}]
       /\ IF s # NoSession
            THEN /\ lockOwner' = [lockOwner EXCEPT ![kind] = th]
                 /\ loc' = [loc EXCEPT ![th] =
                      [NoLoc EXCEPT !.kind = kind, !.account = account, !.session = s]]
                 /\ pc' = [pc EXCEPT ![th] = "disc_logout"]
            ELSE /\ lockOwner' = lockOwner
                 /\ LoopOn(th, kind, account, "disc_lock")
  /\ UNCHANGED <<nextSid, loggedOut, opFailed, archVars>>

\* `if let Some(mut session) = pool.lock().await.remove(&key)`
DiscRemove(th, kind, account) ==
  /\ lockOwner[kind] = NoThread
  /\ LET s == MapGet(imapPool[kind], conn_key(account)) IN
       /\ imapPool' = [imapPool EXCEPT ![kind] = MapRemove(@, conn_key(account))]
       /\ IF s # NoSession
            THEN /\ lockOwner' = [lockOwner EXCEPT ![kind] = th]
                 /\ loc' = [loc EXCEPT ![th] =
                      [NoLoc EXCEPT !.kind = kind, !.account = account, !.session = s]]
                 /\ pc' = [pc EXCEPT ![th] = "disc_logout"]
            ELSE /\ lockOwner' = lockOwner
                 /\ LoopOn(th, kind, account, "disc_lock")
  /\ UNCHANGED <<nextSid, loggedOut, opFailed, archVars>>

Disconnect(th, account) ==
  /\ th \in Callers
  /\ pc[th] = "idle"
  /\ DiscRemove(th, PoolOrder[1], account)

DisconnectNext(th) ==
  /\ pc[th] = "disc_lock"
  /\ DiscRemove(th, loc[th].kind, loc[th].account)

\* let _ = session.logout().await;
DiscLogout(th) ==
  /\ pc[th] = "disc_logout"
  /\ loggedOut' = loggedOut \cup {loc[th].session}
  /\ lockOwner' = Release(loc[th].kind)
  /\ LoopOn(th, loc[th].kind, loc[th].account, "disc_lock")
  /\ UNCHANGED <<imapPool, nextSid, opFailed, archVars>>

\* ------------------------------------------------ ImapPool::disconnect_all
\* let mut guard = pool.lock().await; guard.drain()
DaDrain(th, kind) ==
  /\ lockOwner[kind] = NoThread
  /\ imapPool' = [imapPool EXCEPT ![kind] = {}]
  /\ IF imapPool[kind] # {}
       THEN /\ lockOwner' = [lockOwner EXCEPT ![kind] = th]
            /\ loc' = [loc EXCEPT ![th] =
                         [NoLoc EXCEPT !.kind = kind, !.drained = imapPool[kind]]]
            /\ pc' = [pc EXCEPT ![th] = "da_logout"]
       ELSE /\ lockOwner' = lockOwner
            /\ LoopOn(th, kind, NoAccount, "da_lock")
  /\ UNCHANGED <<nextSid, loggedOut, opFailed, archVars>>

DisconnectAll(th) ==
  /\ th \in Callers
  /\ pc[th] = "idle"
  /\ DaDrain(th, PoolOrder[1])

DisconnectAllNext(th) ==
  /\ pc[th] = "da_lock"
  /\ DaDrain(th, loc[th].kind)

\* for (key, mut session) in guard.drain() { let _ = session.logout().await; }
DaLogout(th) ==
  /\ pc[th] = "da_logout"
  /\ \E e \in loc[th].drained :
       /\ loggedOut' = loggedOut \cup {e.sid}
       /\ IF loc[th].drained = {e}
            THEN /\ lockOwner' = Release(loc[th].kind)
                 /\ LoopOn(th, loc[th].kind, NoAccount, "da_lock")
            ELSE /\ lockOwner' = lockOwner
                 /\ loc' = [loc EXCEPT ![th].drained = @ \ {e}]
                 /\ UNCHANGED pc
  /\ UNCHANGED <<imapPool, nextSid, opFailed, archVars>>

\* ------------------------------------------------------ the pool's callers
PoolStep(th) ==
  \/ \E kind \in PoolNames, account \in Accounts : WithStart(th, kind, account) /\ UNCHANGED auxVars
  \/ Noop(th) /\ UNCHANGED auxVars
  \/ Create(th) /\ UNCHANGED auxVars
  \/ OpDone(th) /\ UNCHANGED auxVars
  \/ RetLogout(th) /\ UNCHANGED auxVars
  \/ \E account \in Accounts : Disconnect(th, account) /\ UNCHANGED auxVars
  \/ DisconnectNext(th) /\ UNCHANGED auxVars
  \/ DiscLogout(th) /\ UNCHANGED auxVars
  \/ DisconnectAll(th) /\ UNCHANGED auxVars
  \/ DisconnectAllNext(th) /\ UNCHANGED auxVars
  \/ DaLogout(th) /\ UNCHANGED auxVars

NextPool == \E th \in Callers : PoolStep(th)

\* Commands and pool maintenance by any caller; no archive run.
SpecPool == Init /\ [][NextPool]_vars


\* ------------------------------------------- archive_emails / cancel_archive
\* The task spawned by the i-th loop iteration of run.
TaskOf(i) == 100 + i

\* archive_emails: a fresh AtomicBool(false) replaces the token, then
\* archive::run starts: the account JSON is parsed (Err returns at once), the
\* first "archive-progress" event is emitted, semaphore and counters are made.
ArchiveEmails(n) ==
  /\ runPc = "idle"
  /\ cancel' = FALSE
  /\ total' = n
  /\ \/ \* serde_json::from_str(&account_json) is Ok
        /\ progress' = [total |-> n, completed |-> 0, errors |-> 0, active |-> TRUE]
        /\ runPc' = "spawning"
        /\ result' = result
     \/ \* .map_err(|e| format!("Bad account JSON: {}", e))?
        /\ progress' = progress
        /\ runPc' = "done"
        /\ result' = [result EXCEPT !.tag = "Err"]
  /\ sem' = SemPermits
  /\ completed' = 0
  /\ errors' = 0
  /\ spawned' = 0
  /\ UNCHANGED <<poolVars, threadVars>>

\* cancel_archive: state.0.lock().unwrap().store(true, Relaxed)
CancelArchive ==
  /\ cancel' = TRUE
  /\ UNCHANGED <<poolVars, threadVars, runPc, total, spawned, sem, completed,
                 errors, progress, result>>

\* ------------------------------------------------------------ archive::run
\* One iteration of `for uid in uids`: break when the flag is set, else spawn
\* the task of the uid; the loop ends when the uids are used up.
RunSpawn ==
  /\ runPc = "spawning"
  /\ IF spawned = total \/ cancel
       THEN /\ runPc' = "joining"
            /\ UNCHANGED <<spawned, pc>>
       ELSE /\ spawned' = spawned + 1
            /\ pc' = [pc EXCEPT ![TaskOf(spawned + 1)] = "sem"]
            /\ runPc' = runPc
  /\ UNCHANGED <<poolVars, loc, total, cancel, sem, completed, errors,
                 progress, result>>

\* RunJoin returning after the first join_next instead of draining the set.
RunJoin_FirstOnly ==
  /\ runPc = "joining"
  /\ \E t \in Tasks : pc[t] \in {"done", "cancelled"}
  /\ progress' = [total |-> total, completed |-> completed, errors |-> errors,
                  active |-> FALSE]
  /\ result' = [tag |-> "Ok", total |-> total, completed |-> completed,
                errors |-> errors, active |-> FALSE]
  /\ runPc' = "done"
  /\ UNCHANGED <<poolVars, threadVars, total, spawned, cancel, sem, completed, errors>>

\* Tasks the JoinSet holds that have not finished.
Unjoined == {t \in Tasks : pc[t] \notin {"unspawned", "done", "cancelled"}}

\* `while set.join_next().await.is_some() {}` is over once every spawned task
\* has finished; then the counters are read, the final event is emitted and
\* Ok(result) is returned.
RunJoin ==
  /\ runPc = "joining"
  /\ Unjoined = {}
  /\ progress' = [total |-> total, completed |-> completed, errors |-> errors,
                  active |-> FALSE]
  /\ result' = [tag |-> "Ok", total |-> total, completed |-> completed,
                errors |-> errors, active |-> FALSE]
  /\ runPc' = "done"
  /\ UNCHANGED <<poolVars, threadVars, total, spawned, cancel, sem, completed, errors>>

\* ------------------------------------------------- the task run spawns
\* TaskAcquire without the cancellation check.
TaskAcquire_NoCheck(t) ==
  /\ pc[t] = "sem"
  /\ sem > 0
  /\ pc' = [pc EXCEPT ![t] = "get_lock"]
  /\ sem' = sem - 1
  /\ UNCHANGED <<poolVars, loc, runPc, total, spawned, cancel, completed,
                 errors, progress, result>>

\* TaskAcquire that does not wait for a permit.
TaskAcquire_NoPermit(t) ==
  /\ pc[t] = "sem"
  /\ IF cancel
       THEN /\ pc' = [pc EXCEPT ![t] = "cancelled"]
            /\ sem' = sem
       ELSE /\ pc' = [pc EXCEPT ![t] = "get_lock"]
            /\ sem' = sem - 1
  /\ UNCHANGED <<poolVars, loc, runPc, total, spawned, cancel, completed,
                 errors, progress, result>>

\* TaskAcquire counting a task that leaves on cancellation as an error.
TaskAcquire_CountsCancelled(t) ==
  /\ pc[t] = "sem"
  /\ sem > 0
  /\ IF cancel
       THEN /\ pc' = [pc EXCEPT ![t] = "cancelled"]
            /\ sem' = sem
            /\ errors' = errors + 1
       ELSE /\ pc' = [pc EXCEPT ![t] = "get_lock"]
            /\ sem' = sem - 1
            /\ errors' = errors
  /\ UNCHANGED <<poolVars, loc, runPc, total, spawned, cancel, completed,
                 progress, result>>

\* let _permit = sem.acquire().await.unwrap();
\* if cancel.load(Relaxed) { return; }   (the permit drops with the task)
TaskAcquire(t) ==
  /\ pc[t] = "sem"
  /\ sem > 0
  /\ IF cancel
       THEN /\ pc' = [pc EXCEPT ![t] = "cancelled"]
            /\ sem' = sem
       ELSE /\ pc' = [pc EXCEPT ![t] = "get_lock"]
            /\ sem' = sem - 1
  /\ UNCHANGED <<poolVars, loc, runPc, total, spawned, cancel, completed,
                 errors, progress, result>>

\* fetch_and_store: pool.get_priority(account).await?
TaskGet(t) ==
  /\ pc[t] = "get_lock"
  /\ GetRemove(t, "priority", ArchiveAccount)
  /\ UNCHANGED archVars

\* The Err of fetch_email_by_uid: `?` returns, the session is dropped
\* ("Don't return session on error").
FetchErr(t) ==
  /\ opFailed' = opFailed \cup {loc[t].session}
  /\ loc' = [loc EXCEPT ![t] = NoLoc]
  /\ pc' = [pc EXCEPT ![t] = "count_err"]
  /\ UNCHANGED <<imapPool, lockOwner>>

\* imap::fetch_email_by_uid(&mut session, mailbox, uid).await, then
\* pool.return_priority(account, session)
Fetch(t) ==
  /\ t \in Tasks
  /\ pc[t] = "fetch"
  /\ \/ \* Ok(email)
        /\ ReturnToPool(t)
        /\ UNCHANGED opFailed
     \/ FetchErr(t)
  /\ UNCHANGED <<nextSid, loggedOut, archVars>>

\* What fetch_and_store can still return from where the task is. With the
\* session back in the pool: Err when the fetched email is None ("Email UID ..
\* not found") or the write into the local store fails (mkdir, base64 decode,
\* write), else Ok(()). After a session or fetch error: that Err.
FetchAndStoreResults(t) ==
  IF pc[t] = "persist" THEN {"Ok", "Err"} ELSE {"Err"}

\* Count that adds two to the error counter for a failed message.
Count_ErrTwice(res) ==
  IF res = "Ok"
    THEN completed' = completed + 1 /\ errors' = errors
    ELSE errors' = errors + 2 /\ completed' = completed

\* Count that leaves a failed message uncounted.
Count_SkipsErr(res) ==
  /\ completed' = IF res = "Ok" THEN completed + 1 ELSE completed
  /\ errors' = errors

\* if last_error.is_none() { completed.fetch_add(1) } else { errors.fetch_add(1) }
Count(res) ==
  IF res = "Ok"
    THEN completed' = completed + 1 /\ errors' = errors
    ELSE errors' = errors + 1 /\ completed' = completed

\* The end of the task: fetch_and_store returns, one counter is incremented,
\* both counters and the flag are read, the progress event is emitted, and
\* the task ends, which drops its permit.
TaskReport(t) ==
  /\ pc[t] \in {"persist", "count_err"}
  /\ \E res \in FetchAndStoreResults(t) : Count(res)
  /\ progress' = [total |-> total, completed |-> completed', errors |-> errors',
                  active |-> ~cancel /\ (completed' + errors') < total]
  /\ pc' = [pc EXCEPT ![t] = "done"]
  /\ sem' = sem + 1
  /\ UNCHANGED <<poolVars, loc, runPc, total, spawned, cancel, result>>

TaskStep(t) ==
  \/ TaskAcquire(t) /\ UNCHANGED auxVars
  \/ TaskGet(t) /\ UNCHANGED auxVars
  \/ Noop(t) /\ UNCHANGED auxVars
  \/ Create(t) /\ UNCHANGED auxVars
  \/ Fetch(t) /\ UNCHANGED auxVars
  \/ RetLogout(t) /\ UNCHANGED auxVars
  \/ TaskReport(t) /\ UNCHANGED auxVars

ArchiveStep ==
  \/ CancelArchive /\ UNCHANGED auxVars
  \/ RunSpawn /\ UNCHANGED auxVars
  \/ RunJoin /\ UNCHANGED auxVars
  \/ \E t \in Tasks : TaskStep(t)

NextArchive ==
  \/ (\E n \in 0..MaxUids : ArchiveEmails(n)) /\ UNCHANGED auxVars
  \/ ArchiveStep

\* One archive run with its tasks and cancel requests at any time.
SpecArchive == Init /\ [][NextArchive]_vars

\* Commands of the callers while an archive run of at most MixedUids messages
\* is under way: both share the priority pool of the archive's account.
NextMixed ==
  \/ NextPool
  \/ (\E n \in 0..MixedUids : ArchiveEmails(n)) /\ UNCHANGED auxVars
  \/ ArchiveStep

SpecMixed == Init /\ [][NextMixed]_vars


\* ------------------------------------- the end of a task, load by load
\* The tasks run on the worker threads of the runtime, so the atomic
\* operations of two tasks interleave. Here fetch_and_store is one step with
\* either outcome and everything after it is taken operation by operation.

\* fetch_and_store(..).await.err(), then the fetch_add on one counter.
FetchAndStoreCounted(t) ==
  /\ pc[t] = "get_lock"
  /\ \E res \in {"Ok", "Err"} : Count(res)
  /\ pc' = [pc EXCEPT ![t] = "load_c"]
  /\ UNCHANGED <<poolVars, loc, runPc, total, spawned, cancel, sem, progress,
                 result, tloc>>

\* let c = completed.load(Relaxed);
LoadC(t) ==
  /\ pc[t] = "load_c"
  /\ tloc' = [tloc EXCEPT ![t].c = completed]
  /\ pc' = [pc EXCEPT ![t] = "load_e"]
  /\ UNCHANGED <<poolVars, loc, archVars>>

\* let e = errors.load(Relaxed);
LoadE(t) ==
  /\ pc[t] = "load_e"
  /\ tloc' = [tloc EXCEPT ![t].e = errors]
  /\ pc' = [pc EXCEPT ![t] = "load_cancel"]
  /\ UNCHANGED <<poolVars, loc, archVars>>

\* let is_cancelled = cancel.load(Relaxed);
LoadCancel(t) ==
  /\ pc[t] = "load_cancel"
  /\ tloc' = [tloc EXCEPT ![t].is_cancelled = cancel]
  /\ pc' = [pc EXCEPT ![t] = "emit"]
  /\ UNCHANGED <<poolVars, loc, archVars>>

\* app.emit("archive-progress", ArchiveProgress { total, completed: c,
\* errors: e, active: !is_cancelled && (c + e) < total, .. }); the task ends
\* and its permit drops.
Emit(t) ==
  /\ pc[t] = "emit"
  /\ progress' = [total |-> total, completed |-> tloc[t].c, errors |-> tloc[t].e,
                  active |-> ~tloc[t].is_cancelled /\ (tloc[t].c + tloc[t].e) < total]
  /\ pc' = [pc EXCEPT ![t] = "done"]
  /\ sem' = sem + 1
  /\ UNCHANGED <<poolVars, loc, runPc, total, spawned, cancel, completed,
                 errors, result, tloc>>

ProgressTaskStep(t) ==
  \/ TaskAcquire(t) /\ UNCHANGED auxVars
  \/ FetchAndStoreCounted(t) /\ UNCHANGED pureVars
  \/ LoadC(t) /\ UNCHANGED pureVars
  \/ LoadE(t) /\ UNCHANGED pureVars
  \/ LoadCancel(t) /\ UNCHANGED pureVars
  \/ Emit(t) /\ UNCHANGED pureVars

NextProgress ==
  \/ (\E n \in 0..ProgressUids : ArchiveEmails(n)) /\ UNCHANGED auxVars
  \/ CancelArchive /\ UNCHANGED auxVars
  \/ RunSpawn /\ UNCHANGED auxVars
  \/ RunJoin /\ UNCHANGED auxVars
  \/ \E t \in Tasks : ProgressTaskStep(t)

\* One archive run with the events of its tasks, load by load.
SpecProgress == Init /\ [][NextProgress]_vars


\* ====================================================== properties: the pool
\* Threads that hold a session handed out by get_from_pool and neither
\* returned nor dropped yet.
Borrowers == {th \in Threads : pc[th] \in {"f", "fetch"}}
Borrowed == {loc[th].session : th \in Borrowers}

\* Sessions a thread has in hand: borrowed, under probe, or removed from a
\* store for its logout.
InHand(th) ==
  (IF pc[th] \in {"noop", "f", "fetch", "ret_logout", "disc_logout"}
     THEN {loc[th].session} ELSE {})
  \cup {e.sid : e \in loc[th].drained}

\* The thread takes a step of get_from_pool's lookup on store `kind`.
Acquires(th, kind) ==
  /\ pc[th] \in {"idle", "get_lock"}
  /\ pc'[th] \in {"noop", "create"}
  /\ loc'[th].kind = kind

\* The thread takes the insert step of return_to_pool.
Releases(th) ==
  /\ pc[th] \in {"f", "fetch"}
  /\ pc'[th] \in {"ret_logout", RetDonePc(th)}
  /\ imapPool' # imapPool

\* C1, state part: no store holds two entries under one key.
OnePerKey ==
  \A kind \in PoolNames : \A e1, e2 \in imapPool[kind] :
    e1.key = e2.key => e1 = e2

\* C1, step part: a release puts the session under its key; an occupant it
\* displaces leaves the store into the releaser's hands, and the releaser
\* leaves that position only by logging it out.
ReleaseReplaces ==
  \A th \in Threads :
    /\ Releases(th) =>
         LET kind == loc[th].kind
             key == conn_key(loc[th].account)
             old == MapGet(imapPool[kind], key)
         IN /\ MapGet(imapPool'[kind], key) = loc[th].session
            /\ \A e \in imapPool'[kind] : e.key # key => e \in imapPool[kind]
            /\ old # NoSession =>
                 /\ old \notin {e.sid : e \in imapPool'[kind]}
                 /\ pc'[th] = "ret_logout"
                 /\ loc'[th].session = old
    /\ (pc[th] = "ret_logout" /\ pc'[th] # "ret_logout") =>
         loc[th].session \in loggedOut'

\* C1: under any interleaving of acquire, release, evict and evict_all by the
\* callers, each of the two pools holds at most one idle session per account
\* key, and a release into an occupied slot replaces the occupant and logs
\* the displaced session out.
C1_OnePerKeyAndReplace == []OnePerKey /\ [][ReleaseReplaces]_vars

\* C1 witness: a release has just displaced an idle session, which its
\* releaser now holds for the logout while the new one sits in the slot.
C1_Witness ==
  \E th \in Callers :
    /\ pc[th] = "ret_logout"
    /\ MapGet(imapPool[loc[th].kind], conn_key(loc[th].account))
         \notin {NoSession, loc[th].session}

\* No session is in two hands, in a hand and idle, or idle in two slots.
Exclusive ==
  /\ \A th1, th2 \in Threads : th1 # th2 => InHand(th1) \cap InHand(th2) = {}
  /\ \A th \in Threads : InHand(th) \cap Idle = {}
  /\ IdleIn("background") \cap IdleIn("priority") = {}
  /\ \A kind \in PoolNames : \A e1, e2 \in imapPool[kind] :
       e1.sid = e2.sid => e1 = e2

\* C2 as amended: a borrowed session is in no pool slot and in nobody
\* else's hands for as long as it is borrowed, so a concurrent acquire for the
\* same account and pool always gets a different session.
C2_BorrowedExclusive ==
  /\ Exclusive
  /\ \A th \in Borrowers : loc[th].session # NoSession
  /\ \A th1, th2 \in Borrowers : th1 # th2 => loc[th1].session # loc[th2].session

\* An acquire for an account and pool of which another caller is borrowing a
\* session finds the slot empty (and so goes on to create a session).
ConcurrentAcquireFindsEmpty ==
  \A th \in Threads, kind \in PoolNames :
    (/\ Acquires(th, kind)
     /\ \E th2 \in Borrowers \ {th} :
          loc[th2].kind = kind /\ loc[th2].account = loc'[th].account)
    => pc'[th] = "create"

\* C2 as stated: a borrowed session is removed from the pool while borrowed,
\* never borrowed twice nor idle and borrowed, and a concurrent acquire for
\* the same account and pool finds the slot empty and gets a freshly created
\* session.
C2_Original == []C2_BorrowedExclusive /\ [][ConcurrentAcquireFindsEmpty]_vars

\* C2 witness: two callers borrow two sessions of the same account and pool
\* at the same time.
C2_Witness ==
  \E th1, th2 \in Callers :
    /\ th1 # th2
    /\ {th1, th2} \subseteq Borrowers
    /\ loc[th1].kind = loc[th2].kind
    /\ loc[th1].account = loc[th2].account

\* C4: while a network exchange on a pooled session (the NOOP probe, the
\* logout of a stale, displaced or evicted session) or a session creation is
\* in progress, the thread doing it holds no pool lock.
C4_NoLockDuringExchange ==
  \A th \in Threads :
    pc[th] \in {"noop", "create", "ret_logout", "disc_logout", "da_logout"}
      => \A kind \in PoolNames : lockOwner[kind] # th

\* C5, state part: a session that was logged out is neither idle in a pool
\* nor borrowed.
LoggedOutGone == loggedOut \cap (Idle \cup Borrowed) = {}

\* C5, step part, for the steps of get_from_pool.
AcquireSteps ==
  \A th \in Threads :
    \* the lookup takes the key's idle session out for the probe, if there is one
    /\ \A kind \in PoolNames : Acquires(th, kind) =>
         /\ loc'[th].session = MapGet(imapPool[kind], conn_key(loc'[th].account))
         /\ imapPool'[kind] = MapRemove(imapPool[kind], conn_key(loc'[th].account))
         /\ (pc'[th] = "noop") = (loc'[th].session # NoSession)
    \* probe Ok: that session is returned, none is created
    /\ (pc[th] = "noop" /\ pc'[th] = GetOkPc(th)) =>
         /\ loc'[th].session = loc[th].session
         /\ loc[th].session # NoSession
         /\ UNCHANGED <<nextSid, imapPool, loggedOut>>
    \* probe Err: the stale session is logged out and gone, creation follows
    /\ (pc[th] = "noop" /\ pc'[th] \notin {"noop", GetOkPc(th)}) =>
         /\ pc'[th] = "create"
         /\ loc[th].session \in loggedOut'
         /\ loc'[th].session = NoSession
         /\ imapPool' = imapPool
    \* creation Ok: a session nobody has seen before is returned
    /\ (pc[th] = "create" /\ pc'[th] = GetOkPc(th)) =>
         /\ loc'[th].session # NoSession
         /\ loc'[th].session \notin
              Idle \cup loggedOut \cup opFailed \cup UNION {InHand(o) : o \in Threads}
         /\ imapPool' = imapPool
    \* creation Err: the caller gets the error and no session, the pools stay
    /\ (pc[th] = "create" /\ pc'[th] \notin {"create", GetOkPc(th)}) =>
         /\ pc'[th] = GetErrPc(th)
         /\ loc'[th].session = NoSession
         /\ imapPool' = imapPool

\* C5: acquire on a key with an idle session probes it; probe Ok returns that
\* same session and creates none; probe Err logs the stale session out, never
\* returns nor re-inserts it, and returns a newly created session; when the
\* creation fails the caller gets an error and acquire leaves the slot as it
\* is (it puts nothing in).
C5_AcquireProbes == []LoggedOutGone /\ [][AcquireSteps]_vars

\* C5 witness: a caller works on a newly created session after the probe of
\* the idle one failed: the first session is logged out and the pools are empty.
C5_Witness ==
  \E th \in Callers :
    /\ pc[th] = "f"
    /\ loc[th].session = 2
    /\ loggedOut = {1}
    /\ Idle = {}
    /\ opFailed = {}
    /\ \A o \in Callers \ {th} : pc[o] = "idle"

\* Entries of a store that are not under the key.
Others(m, key) == {e \in m : e.key # key}

\* C6: each step of disconnect(account) takes the account's entry out of the
\* store it visits (background first, priority second, returning only after
\* the second), logs the removed session out before moving on, and leaves the
\* entries of every other key in both pools unchanged.
C6_EvictFrame ==
  [][\A th \in Callers :
       LET visits == (pc[th] = "idle" /\ pc'[th] \in {"disc_logout", "disc_lock"})
                       \/ pc[th] = "disc_lock"
           kind == IF pc[th] = "idle" THEN PoolOrder[1] ELSE loc[th].kind
           account == IF pc[th] = "idle" THEN loc'[th].account ELSE loc[th].account
           key == conn_key(account)
       IN /\ (visits /\ pc'[th] # pc[th]) =>
               /\ MapGet(imapPool'[kind], key) = NoSession
               /\ Others(imapPool'[kind], key) = Others(imapPool[kind], key)
               /\ \A k \in PoolNames \ {kind} : imapPool'[k] = imapPool[k]
               /\ IF MapGet(imapPool[kind], key) # NoSession
                    THEN /\ pc'[th] = "disc_logout"
                         /\ loc'[th].session = MapGet(imapPool[kind], key)
                         /\ loc'[th].kind = kind
                    ELSE /\ pc'[th] = (IF kind = PoolOrder[1] THEN "disc_lock" ELSE "idle")
                         /\ (pc'[th] = "disc_lock" =>
                               loc'[th].kind = PoolOrder[2] /\ loc'[th].account = account)
          /\ (pc[th] = "disc_logout" /\ pc'[th] # pc[th]) =>
               /\ loc[th].session \in loggedOut'
               /\ imapPool' = imapPool
               /\ pc'[th] = (IF loc[th].kind = PoolOrder[1] THEN "disc_lock" ELSE "idle")
               /\ (pc'[th] = "disc_lock" =>
                     loc'[th].kind = PoolOrder[2] /\ loc'[th].account = loc[th].account)
    ]_vars

\* C6 witness: an evict holds the account's priority entry for the logout
\* while another account's session is still idle in the priority pool.
C6_Witness ==
  \E th \in Callers :
    /\ pc[th] = "disc_logout"
    /\ loc[th].kind = "priority"
    /\ \E e \in imapPool["priority"] : e.key # conn_key(loc[th].account)

\* C3: a session on which a borrowed operation returned an error (the closure
\* of with_background / with_priority, or fetch_email_by_uid in an archive
\* task) is never in a pool afterwards, nor in anybody's hands again.
C3_FailedNeverPooled ==
  /\ opFailed \cap Idle = {}
  /\ \A th \in Threads : opFailed \cap InHand(th) = {}

\* C3 witness: the archive task's fetch failed on the session the task had
\* created, a caller's command failed on another session, and a third
\* session was returned and is idle.
C3_Witness ==
  /\ pc[TaskOf(1)] = "count_err"
  /\ {1, TaskOf(1)} \subseteq opFailed
  /\ Idle # {}


\* =============================================== properties: the archive run
\* The tasks of the run's uids.
RunTasks == {TaskOf(i) : i \in 1..total}

\* Tasks inside fetch-and-persist work: past the cancellation check with a
\* permit, not yet ended.
InWork == {t \in Tasks : pc[t] \in {"get_lock", "noop", "create", "fetch",
                                     "ret_logout", "persist", "count_err"}}

\* run has returned Ok(result).
Returned == runPc = "done" /\ result.tag = "Ok"

\* C7: when the cancellation flag was never set during a run over n uids,
\* the result run returns has completed + errors = n and active = false,
\* whatever the order in which the tasks end and whichever of them fail.
C7_AllCounted ==
  (Returned /\ ~cancel) =>
    /\ result.completed + result.errors = total
    /\ result.total = total
    /\ result.active = FALSE

\* C7 witness: a run over MaxUids uids returned with the flag clear, some
\* messages archived and some failed.
C7_Witness ==
  /\ Returned
  /\ ~cancel
  /\ total = MaxUids
  /\ result.completed > 0
  /\ result.errors > 0

\* C8, step part: a task passes from its cancellation check into
\* fetch_and_store only while the flag is clear.
StartsOnlyUncancelled ==
  \A t \in Tasks : (t \notin InWork /\ t \in InWork') => ~cancel

\* C8, state part: when the flag was set before some task of the run passed
\* its check (the task was then never spawned, or ended at its check), the
\* result has completed + errors < total and active = false.
CancelledRunIsShort ==
  (Returned /\ \E t \in RunTasks : pc[t] \in {"unspawned", "cancelled"}) =>
    /\ cancel
    /\ result.completed + result.errors < total
    /\ result.active = FALSE

\* C8: when the cancellation flag is set before every task of the run has
\* passed its pre-work check, no task starts fetch-and-persist work after
\* that, and the final result has completed + errors < total, active = false.
C8_CancelStopsNewWork == [][StartsOnlyUncancelled]_vars /\ []CancelledRunIsShort

\* C8 witness: a cancelled run has returned: one task did its work and was
\* counted, one ended at its check, one was never spawned.
C8_Witness ==
  /\ Returned
  /\ cancel
  /\ result.completed + result.errors > 0
  /\ \E t \in RunTasks : pc[t] = "cancelled"
  /\ \E t \in RunTasks : pc[t] = "unspawned"

\* C9: at every moment of a run at most SemPermits tasks are inside
\* fetch-and-persist work, each holding one permit, and so the tasks have at
\* most SemPermits sessions of the priority pool in hand.
C9_AtMostThreeInWork ==
  /\ Cardinality(InWork) <= SemPermits
  /\ runPc # "idle" => sem = SemPermits - Cardinality(InWork)
  /\ Cardinality(UNION {InHand(t) : t \in Tasks}) <= SemPermits
  /\ \A t \in Tasks : InHand(t) # {} => (t \in InWork /\ loc[t].kind = "priority")

\* C9 witness: SemPermits tasks each work on a borrowed session while a
\* further task waits for a permit.
C9_Witness ==
  /\ Cardinality({t \in Tasks : pc[t] = "fetch"}) = SemPermits
  /\ sem = 0
  /\ \E t \in Tasks : pc[t] = "sem"

\* C10, state part: once run has returned no task of the run is running, and
\* the last event emitted is the final summary run returned.
ReturnedAfterTasks ==
  Returned =>
    /\ Unjoined = {}
    /\ progress = [total |-> result.total, completed |-> result.completed,
                    errors |-> result.errors, active |-> result.active]

\* C10, step part: a task in fetch-and-persist work is not moved by a change
\* of the flag and leaves the work only by ending with its message counted
\* and its event emitted; after run returned no event is emitted.
StartedTasksRunOut ==
  /\ \A t \in InWork :
       /\ cancel' # cancel => (pc'[t] = pc[t] /\ loc'[t] = loc[t])
       /\ t \notin InWork' =>
            /\ pc'[t] = "done"
            /\ completed' + errors' = completed + errors + 1
            /\ progress'.total = total
  /\ runPc = "done" => (progress' = progress /\ pc' = pc)

\* C10: run returns, and emits its final summary, only after every task it
\* spawned has ended; setting the flag never interrupts a task that has
\* started its fetch; no task runs or emits an event after run returned.
C10_ReturnsAfterAllTasks == []ReturnedAfterTasks /\ [][StartedTasksRunOut]_vars

\* C10 witness: run is draining its tasks after a cancel request: a task
\* that had started reported with the flag set (an event with active = false
\* before the count is full) and another is still at its fetch.
C10_Witness ==
  /\ runPc = "joining"
  /\ cancel
  /\ progress.active = FALSE
  /\ progress.completed + progress.errors > 0
  /\ progress.completed + progress.errors < total
  /\ \E t \in RunTasks : pc[t] = "fetch"

\* C11, step part: the failure of a message (fetch_and_store returned Err:
\* the task is at count_err after a session or fetch error, or the message
\* was not found or could not be decoded or written) adds exactly one to the
\* error counter and nothing to the other, frees the task's permit, and
\* touches neither run nor any other task; getting to count_err changes no
\* counter and stops nobody either.
FailureCountedOnce ==
  /\ \A t \in Tasks :
       /\ (pc[t] = "count_err" /\ pc'[t] # pc[t]) =>
            errors' = errors + 1 /\ completed' = completed
       /\ (pc[t] # "count_err" /\ pc'[t] = "count_err") =>
            /\ UNCHANGED <<completed, errors, runPc, result, sem, spawned>>
            /\ \A o \in Tasks \ {t} : pc'[o] = pc[o]
  /\ errors' # errors /\ runPc # "idle" =>
       /\ errors' = errors + 1
       /\ completed' = completed
       /\ sem' = sem + 1
       /\ UNCHANGED <<runPc, result, spawned, total>>
       /\ \E t \in InWork :
            /\ pc'[t] = "done"
            /\ \A o \in Tasks \ {t} : pc'[o] = pc[o]

\* C11, state part: run returns Err only for a bad account JSON, before any
\* task exists; a returned run reports the counters, and when it was not
\* cancelled every uid's task has run to its end whatever failed.
FailuresNotRaised ==
  /\ (runPc = "done" /\ result.tag = "Err") =>
       /\ errors = 0 /\ completed = 0
       /\ \A t \in Tasks : pc[t] = "unspawned"
  /\ Returned =>
       /\ result.errors = errors /\ result.completed = completed
       /\ ~cancel => \A t \in RunTasks : pc[t] = "done"

\* C11: a message's failure adds exactly one to the error counter, does not
\* keep the tasks of the other uids from running, and never makes run return
\* an error: run returns Ok with the counts.
C11_FailuresCountedNotRaised == [][FailureCountedOnce]_vars /\ []FailuresNotRaised

\* C11 witness: run returned Ok over MaxUids uids of which one was archived
\* and all others failed, one of them in its fetch.
C11_Witness ==
  /\ Returned
  /\ ~cancel
  /\ total = MaxUids
  /\ result.completed = 1
  /\ result.errors = MaxUids - 1
  /\ opFailed # {}

\* C12: in the order in which the events of one run are emitted, the completed
\* count and the errors count never decrease, and after an event with
\* active = false no event has active = true.
C12_ProgressMonotone ==
  [][runPc # "idle" =>
       /\ progress'.completed >= progress.completed
       /\ progress'.errors >= progress.errors
       /\ (~progress.active => ~progress'.active)]_vars


\* ================================================= the Maildir flag codec
\* Strings are sequences of one-character strings.
UpperAlphabet ==
  <<"A", "B", "C", "D", "E", "F", "G", "H", "I", "J", "K", "L", "M",
    "N", "O", "P", "Q", "R", "S", "T", "U", "V", "W", "X", "Y", "Z">>
LowerAlphabet ==
  <<"a", "b", "c", "d", "e", "f", "g", "h", "i", "j", "k", "l", "m",
    "n", "o", "p", "q", "r", "s", "t", "u", "v", "w", "x", "y", "z">>
Digits == <<"0", "1", "2", "3", "4", "5", "6", "7", "8", "9">>

IsUpper(c) == \E i \in 1..Len(UpperAlphabet) : UpperAlphabet[i] = c
\* The place of an upper-case letter in code point order.
CharOrd(c) == CHOOSE i \in 1..Len(UpperAlphabet) : UpperAlphabet[i] = c

\* str::to_lowercase
to_lowercase(str) ==
  [i \in 1..Len(str) |->
     IF IsUpper(str[i]) THEN LowerAlphabet[CharOrd(str[i])] ELSE str[i]]

\* format!("{}", n) of an unsigned integer
RECURSIVE Decimal(_)
Decimal(n) ==
  IF n < 10 THEN <<Digits[n + 1]>>
            ELSE Decimal(n \div 10) \o <<Digits[(n % 10) + 1]>>

\* The flag names, as string literals of the source.
ARCHIVED == <<"a", "r", "c", "h", "i", "v", "e", "d">>
DRAFT == <<"d", "r", "a", "f", "t">>
FLAGGED == <<"f", "l", "a", "g", "g", "e", "d">>
REPLIED == <<"r", "e", "p", "l", "i", "e", "d">>
SEEN == <<"s", "e", "e", "n">>
TRASHED == <<"t", "r", "a", "s", "h", "e", "d">>

\* The match of build_maildir_filename on f.to_lowercase(): the letters one
\* flag pushes on flag_chars.
FlagChar(f) ==
  LET l == to_lowercase(f) IN
    CASE l \in {ARCHIVED, <<"a">>} -> <<"A">>
      [] l \in {DRAFT, <<"d">>} -> <<"D">>
      [] l \in {FLAGGED, <<"f">>} -> <<"F">>
      [] l \in {REPLIED, <<"r">>} -> <<"R">>
      [] l \in {SEEN, <<"s">>} -> <<"S">>
      [] l \in {TRASHED, <<"t">>} -> <<"T">>
      [] OTHER -> <<>>

\* for f in flags { match .. => flag_chars.push(..) }
RECURSIVE FlagChars(_)
FlagChars(flags) ==
  IF flags = <<>> THEN <<>>
  ELSE FlagChar(Head(flags)) \o FlagChars(Tail(flags))

\* Insert a letter into a sorted sequence, after the letters not above it.
RECURSIVE InsertSorted(_, _)
InsertSorted(c, sorted) ==
  IF sorted = <<>> THEN <<c>>
  ELSE IF CharOrd(c) < CharOrd(Head(sorted)) THEN <<c>> \o sorted
  ELSE <<Head(sorted)>> \o InsertSorted(c, Tail(sorted))

\* Vec::sort
RECURSIVE SortChars(_)
SortChars(chars) ==
  IF chars = <<>> THEN <<>>
  ELSE InsertSorted(Head(chars), SortChars(Tail(chars)))

\* Dedup that removes nothing.
Dedup_KeepsAll(chars) == chars

\* Vec::dedup: of every run of equal consecutive elements the first is kept.
RECURSIVE Dedup(_)
Dedup(chars) ==
  IF Len(chars) < 2 THEN chars
  ELSE IF chars[1] = chars[2] THEN Dedup(Tail(chars))
  ELSE <<Head(chars)>> \o Dedup(Tail(chars))

\* The separator between the uid and the flag letters.
InfoSep == <<":", "2", ",">>

\* format!("{}:2,{}", uid, flag_str)
build_maildir_filename(uid, flags) ==
  Decimal(uid) \o InfoSep \o Dedup(SortChars(FlagChars(flags)))

\* str::starts_with
StartsWith(str, prefix) ==
  Len(str) >= Len(prefix) /\ SubSeq(str, 1, Len(prefix)) = prefix

\* Places where pat occurs in str.
Occurrences(str, pat) ==
  {i \in 1..Len(str) : StartsWith(SubSeq(str, i, Len(str)), pat)}

\* str::split(pat), collected: the pieces between the occurrences of pat.
RECURSIVE Split(_, _)
Split(str, pat) ==
  IF Occurrences(str, pat) = {} THEN <<str>>
  ELSE LET i == CHOOSE j \in Occurrences(str, pat) :
                  \A k \in Occurrences(str, pat) : j <= k
       IN <<SubSeq(str, 1, i - 1)>>
            \o Split(SubSeq(str, i + Len(pat), Len(str)), pat)

\* The match of parse_flags_from_filename on a character of the flags part.
FlagName(c) ==
  CASE c = "A" -> <<ARCHIVED>>
    [] c = "D" -> <<DRAFT>>
    [] c = "F" -> <<FLAGGED>>
    [] c = "R" -> <<REPLIED>>
    [] c = "S" -> <<SEEN>>
    [] c = "T" -> <<TRASHED>>
    [] OTHER -> <<>>

RECURSIVE FlagNames(_)
FlagNames(chars) ==
  IF chars = <<>> THEN <<>>
  ELSE FlagName(Head(chars)) \o FlagNames(Tail(chars))

\* filename.split(":2,").nth(1), then one flag per recognised character.
parse_flags_from_filename(filename) ==
  LET parts == Split(filename, InfoSep) IN
    IF Len(parts) >= 2 THEN FlagNames(parts[2]) ELSE <<>>

\* Flag strings callers pass: names and letters in either case, repeated or
\* unknown ones.
FlagWords ==
  { ARCHIVED, SEEN, <<"S", "e", "e", "n">>, <<"S">>, <<"a">>, FLAGGED,
    <<"j", "u", "n", "k">>, DRAFT, <<"R">>, TRASHED }

\* Lists of at most n flag strings.
RECURSIVE FlagListsUpTo(_)
FlagListsUpTo(n) ==
  IF n = 0 THEN {<<>>}
  ELSE FlagListsUpTo(n - 1)
         \cup {Append(l, w) : l \in {x \in FlagListsUpTo(n - 1) : Len(x) = n - 1},
                              w \in FlagWords}
FlagLists == FlagListsUpTo(MaxFlags)
CodecUids == 0..MaxCodecUid

\* A uid and a flag list to encode.
InitCodecInput ==
  codec \in {[NoCodec EXCEPT !.stage = "input", !.uid = u, !.flags = fl] :
               u \in CodecUids, fl \in FlagLists}

\* let name = build_maildir_filename(uid, &flags)
CodecBuild ==
  /\ codec.stage = "input"
  /\ codec' = [codec EXCEPT !.stage = "built",
                            !.filename = build_maildir_filename(codec.uid, codec.flags)]

\* let flags = parse_flags_from_filename(&name)   (maildir_read, maildir_list)
CodecParse ==
  /\ codec.stage = "built"
  /\ codec' = [codec EXCEPT !.stage = "parsed",
                            !.decoded = parse_flags_from_filename(codec.filename)]

\* build_maildir_filename(uid, &flags) on the decoded flags (maildir_set_flags)
CodecRebuild ==
  /\ codec.stage = "parsed"
  /\ codec' = [codec EXCEPT !.stage = "rebuilt",
                            !.rebuilt = build_maildir_filename(codec.uid, codec.decoded)]

\* What the codec calls leave alone.
codecFrame ==
  <<coreVars, tloc, created, listing, maildir, storeOp, mailbox, pageOp, scroll, att, server>>

NextCodec ==
  \/ CodecBuild /\ UNCHANGED codecFrame
  \/ CodecParse /\ UNCHANGED codecFrame
  \/ CodecRebuild /\ UNCHANGED codecFrame

\* Encode, decode and encode again, for every uid and flag list of the bounds.
CodecInit ==
  /\ InitCore /\ InitTLoc /\ InitCreated /\ InitListing /\ InitStore /\ InitPage /\ InitAtt /\ InitServer
  /\ InitCodecInput

SpecCodec == CodecInit /\ [][NextCodec]_vars

\* ------------------------------------------------- properties: the codec
\* The recognised flags: canonical name and letter.
FlagTable ==
  { <<ARCHIVED, "A">>, <<DRAFT, "D">>, <<FLAGGED, "F">>, <<REPLIED, "R">>,
    <<SEEN, "S">>, <<TRASHED, "T">> }

\* The entries of the table a flag list names, by name or by letter, in any case.
RecognisedIn(flags) ==
  {e \in FlagTable :
     \E i \in 1..Len(flags) :
       to_lowercase(flags[i]) \in {e[1], to_lowercase(<<e[2]>>)}}

Range(seq) == {seq[i] : i \in 1..Len(seq)}

\* The letters are in strictly ascending order (so none is repeated).
StrictlyAscending(chars) ==
  \A i \in 1..(Len(chars) - 1) : CharOrd(chars[i]) < CharOrd(chars[i + 1])

\* C18: build_maildir_filename yields "<uid>:2," followed by the sorted,
\* de-duplicated letters of the recognised flags ("AS" for archived and seen);
\* parse_flags_from_filename of that name yields exactly the recognised
\* flags; encoding the decoded flags again gives the same filename.
C18_FlagCodecRoundTrip ==
  LET rec == RecognisedIn(codec.flags)
      prefix == Decimal(codec.uid) \o InfoSep
      letters == SubSeq(codec.filename, Len(prefix) + 1, Len(codec.filename))
  IN /\ codec.stage \in {"built", "parsed", "rebuilt"} =>
          /\ StartsWith(codec.filename, prefix)
          /\ Range(letters) = {e[2] : e \in rec}
          /\ StrictlyAscending(letters)
          /\ {e[1] : e \in rec} = {ARCHIVED, SEEN} => letters = <<"A", "S">>
     /\ codec.stage \in {"parsed", "rebuilt"} =>
          /\ Range(codec.decoded) = {e[1] : e \in rec}
          /\ Len(codec.decoded) = Cardinality(rec)
     /\ codec.stage = "rebuilt" => codec.rebuilt = codec.filename

\* C18 witness: "Seen", "archived", "S" for uid 11 were encoded as 11:2,AS,
\* decoded as archived, seen and encoded again.
C18_Witness ==
  /\ codec.stage = "rebuilt"
  /\ codec.flags = << <<"S", "e", "e", "n">>, ARCHIVED, <<"S">> >>
  /\ codec.filename = <<"1", "1", ":", "2", ",", "A", "S">>
  /\ codec.decoded = <<ARCHIVED, SEEN>>


\* =============================================== the local store (Maildir)
\* One cur directory: a set of files [name, content], one per name. The
\* commands on it are taken one at a time.
StoreUids == {10 * i + 1 : i \in 0..MaxStoreUid}
Contents == 1..MaxContent
StoreFlagLists == {<<SEEN>>, <<SEEN, ARCHIVED>>}
\* let flags = ["archived".to_string(), "seen".to_string()];
ArchiveFlags == <<ARCHIVED, SEEN>>

\* The entries of dir whose name starts with format!("{}:", uid). read_dir
\* yields the entries in no particular order, so find_file_by_uid returns any
\* one of them, or None when there is none.
find_file_by_uid(dir, uid) ==
  {f \in dir : StartsWith(f.name, Decimal(uid) \o <<":">>)}

\* fs::write(path, bytes): the file is created, or its content replaced.
FsWrite(dir, name, content) ==
  {f \in dir : f.name # name} \cup {[name |-> name, content |-> content]}

\* fs::rename(from, to): the file gets the new name and replaces a file that
\* has it.
FsRename(dir, from, to) ==
  {f \in dir : f.name # to /\ f # from} \cup {[name |-> to, content |-> from.content]}

\* The tail of the three writers: decode the base64 text, write the file.
\* A failed decode or write returns Err and leaves dir as it is by then.
DecodeAndWrite(dir, op, uid, flags, content, found) ==
  \/ /\ maildir' = FsWrite(dir, build_maildir_filename(uid, flags), content)
     /\ storeOp' = [op |-> op, uid |-> uid, flags |-> flags, content |-> content,
                    found |-> found, res |-> "Ok"]
  \/ /\ maildir' = dir
     /\ storeOp' = [op |-> op, uid |-> uid, flags |-> flags, content |-> content,
                    found |-> found, res |-> "Err"]

\* ArchiveStore that returns Ok without touching a uid that has a file.
RemoveExisting_Skips(dir, existing) == dir

\* if let Some(existing) = find_file_by_uid(..) { let _ = fs::remove_file(&existing); }
RemoveExisting(dir, existing) == dir \ existing

\* fetch_and_store after the session went back to the pool, for a fetched
\* email: remove the uid's file if one is found, decode, write <uid>:2,AS.
ArchiveStore(uid, content) ==
  \/ /\ find_file_by_uid(maildir, uid) = {}
     /\ DecodeAndWrite(maildir, "archive", uid, ArchiveFlags, content, <<>>)
  \/ \E existing \in find_file_by_uid(maildir, uid) :
       DecodeAndWrite(RemoveExisting(maildir, {existing}), "archive", uid,
                      ArchiveFlags, content, existing.name)

\* maildir_store: the same with the caller's flags.
MaildirStore(uid, flags, content) ==
  \/ /\ find_file_by_uid(maildir, uid) = {}
     /\ DecodeAndWrite(maildir, "store", uid, flags, content, <<>>)
  \/ \E existing \in find_file_by_uid(maildir, uid) :
       DecodeAndWrite(RemoveExisting(maildir, {existing}), "store", uid, flags,
                      content, existing.name)

\* MaildirStoreRaw writing although the uid has a file.
MaildirStoreRaw_Overwrites(uid, flags, content) ==
  \/ /\ find_file_by_uid(maildir, uid) = {}
     /\ DecodeAndWrite(maildir, "store_raw", uid, flags, content, <<>>)
  \/ \E existing \in find_file_by_uid(maildir, uid) :
       DecodeAndWrite(RemoveExisting(maildir, {existing}), "store_raw", uid,
                      flags, content, existing.name)

\* maildir_store_raw: `if find_file_by_uid(&cur_dir, uid).is_some() { return Ok(()); }`,
\* else decode and write.
MaildirStoreRaw(uid, flags, content) ==
  \/ /\ find_file_by_uid(maildir, uid) = {}
     /\ DecodeAndWrite(maildir, "store_raw", uid, flags, content, <<>>)
  \/ \E existing \in find_file_by_uid(maildir, uid) :
       /\ maildir' = maildir
       /\ storeOp' = [op |-> "store_raw", uid |-> uid, flags |-> flags,
                      content |-> content, found |-> existing.name, res |-> "Ok"]

\* imap_get_email_light: maildir_store_raw(.., e.uid, &raw_b64, &[])
NoFlags == <<>>

\* import_backup, one .eml entry of the ZIP: written unless the name exists.
ImportBackup(uid, flags, content) ==
  LET name == build_maildir_filename(uid, flags) IN
    /\ maildir' = IF \E f \in maildir : f.name = name
                    THEN maildir ELSE FsWrite(maildir, name, content)
    /\ storeOp' = [op |-> "import", uid |-> uid, flags |-> flags,
                   content |-> content, found |-> <<>>, res |-> "Ok"]

\* maildir_delete
MaildirDelete(uid) ==
  \/ /\ find_file_by_uid(maildir, uid) = {}
     /\ maildir' = maildir
     /\ storeOp' = [NoStoreOp EXCEPT !.op = "delete", !.uid = uid, !.res = "Ok"]
  \/ \E path \in find_file_by_uid(maildir, uid) :
       /\ maildir' = maildir \ {path}
       /\ storeOp' = [NoStoreOp EXCEPT !.op = "delete", !.uid = uid,
                                       !.found = path.name, !.res = "Ok"]

\* maildir_set_flags
MaildirSetFlags(uid, flags) ==
  \/ /\ find_file_by_uid(maildir, uid) = {}
     /\ maildir' = maildir
     /\ storeOp' = [NoStoreOp EXCEPT !.op = "set_flags", !.uid = uid,
                                     !.flags = flags, !.res = "Err"]
  \/ \E old_path \in find_file_by_uid(maildir, uid) :
       LET new_filename == build_maildir_filename(uid, flags) IN
         /\ maildir' = IF old_path.name # new_filename
                         THEN FsRename(maildir, old_path, new_filename)
                         ELSE maildir
         /\ storeOp' = [NoStoreOp EXCEPT !.op = "set_flags", !.uid = uid,
                                         !.flags = flags, !.found = old_path.name,
                                         !.res = "Ok"]

\* What the commands on the store leave alone.
storeFrame == <<coreVars, tloc, created, listing, codec, mailbox, pageOp, scroll, att, server>>

NextStore ==
  \/ \E uid \in StoreUids, content \in Contents :
       ArchiveStore(uid, content) /\ UNCHANGED storeFrame
  \/ \E uid \in StoreUids, flags \in StoreFlagLists, content \in Contents :
       MaildirStore(uid, flags, content) /\ UNCHANGED storeFrame
  \/ \E uid \in StoreUids, flags \in StoreFlagLists, content \in Contents :
       ImportBackup(uid, flags, content) /\ UNCHANGED storeFrame
  \/ \E uid \in StoreUids, content \in Contents :
       MaildirStoreRaw(uid, NoFlags, content) /\ UNCHANGED storeFrame
  \/ \E uid \in StoreUids : MaildirDelete(uid) /\ UNCHANGED storeFrame
  \/ \E uid \in StoreUids, flags \in StoreFlagLists :
       MaildirSetFlags(uid, flags) /\ UNCHANGED storeFrame

\* The commands on one directory of the local store, in any order.
SpecStore == Init /\ [][NextStore]_vars

\* --------------------------------------------- properties: the local store
\* C13: an archive task writes the fetched bytes as <uid>:2,AS when the uid
\* has no file in the store, and skips the write when it has one: a file
\* that exists for the uid is left as it is, name, flags and content.
C13_ArchiveSkipsExisting ==
  [][storeOp'.op = "archive" =>
       LET uid == storeOp'.uid
           existing == find_file_by_uid(maildir, uid)
           written == [name |-> Decimal(uid) \o InfoSep \o <<"A", "S">>,
                       content |-> storeOp'.content]
       IN /\ existing \subseteq maildir'
          /\ (existing = {} /\ storeOp'.res = "Ok") => maildir' = maildir \cup {written}
          /\ (existing = {} /\ storeOp'.res = "Err") => maildir' = maildir
    ]_vars

\* C19: maildir_set_flags is a rename only. On success the file found for the
\* uid is the only file that changes: it keeps its content and carries the
\* name of the new flags afterwards, and every other file is as before. When
\* the uid has no file the call returns Err and the directory is unchanged.
C19_SetFlagsIsRename ==
  [][storeOp'.op = "set_flags" =>
       LET uid == storeOp'.uid
           before == find_file_by_uid(maildir, uid)
       IN /\ before = {} => (storeOp'.res = "Err" /\ maildir' = maildir)
          /\ before # {} =>
               /\ storeOp'.res = "Ok"
               /\ \E f \in before :
                    /\ f.name = storeOp'.found
                    /\ maildir' = (maildir \ {f}) \cup
                         {[name |-> build_maildir_filename(uid, storeOp'.flags),
                           content |-> f.content]}
          /\ \A g \in maildir \ before : g \in maildir'
    ]_vars

\* C19 for a directory that holds at most one file per uid.
SetFlagsIsRenameOfSingle ==
  [][(\A u \in StoreUids : Cardinality(find_file_by_uid(maildir, u)) <= 1)
       => (storeOp'.op = "set_flags" =>
            LET uid == storeOp'.uid
                before == find_file_by_uid(maildir, uid)
            IN /\ before = {} => (storeOp'.res = "Err" /\ maildir' = maildir)
               /\ before # {} =>
                    /\ storeOp'.res = "Ok"
                    /\ \E f \in before :
                         maildir' = (maildir \ {f}) \cup
                           {[name |-> build_maildir_filename(uid, storeOp'.flags),
                             content |-> f.content]})
    ]_vars


\* ====================================== fetch_emails_page / fetch_emails_range
\* u32 values are pairs <<high 16 bits, low 16 bits>>, so that every u32 and
\* every product of two of them is computed exactly.
Half == 65536
Byte == 256

U32(n) == <<n \div Half, n % Half>>
U32Max == <<Half - 1, Half - 1>>

\* The product of two 16-bit numbers, as a u32.
MulHalves(x, y) ==
  LET low == ((x \div Byte) * (y % Byte) + (x % Byte) * (y \div Byte)) * Byte
               + (x % Byte) * (y % Byte)
  IN <<(x \div Byte) * (y \div Byte) + low \div Half, low % Half>>

\* a * b on u32: the wrapped value, and whether the product left the range.
MulU32(a, b) ==
  LET low == MulHalves(a[2], b[2])
      c1 == MulHalves(a[1], b[2])
      c2 == MulHalves(a[2], b[1])
      mid == low[1] + c1[2] + c2[2]
  IN [val |-> <<mid % Half, low[2]>>,
      overflow |-> \/ a[1] > 0 /\ b[1] > 0
                   \/ c1[1] > 0
                   \/ c2[1] > 0
                   \/ mid >= Half]

\* a - 1 on u32
SubOneU32(a) ==
  IF a = <<0, 0>> THEN [val |-> U32Max, overflow |-> TRUE]
  ELSE IF a[2] > 0 THEN [val |-> <<a[1], a[2] - 1>>, overflow |-> FALSE]
  ELSE [val |-> <<a[1] - 1, Half - 1>>, overflow |-> FALSE]

Max(x, y) == IF x >= y THEN x ELSE y
Min(x, y) == IF x <= y THEN x ELSE y

\* (total as i64 - x as i64 + plus).max(1) as u32, for a mailbox of the
\* bounds (total < Half): an x of Half or more is above total.
ClampedFrom(exists, x, plus) ==
  IF x[1] > 0 THEN 1 ELSE Max(exists - x[2] + plus, 1)

\* The sequence numbers lo..hi in ascending order, as the server sends them.
Ascending(lo, hi) == [i \in 1..(hi - lo + 1) |-> lo + i - 1]

\* Vec::reverse
Reverse(seq) == [i \in 1..Len(seq) |-> seq[Len(seq) + 1 - i]]

\* The fetches whose header parses (emails) / does not parse (skipped_uids),
\* in the order of the fetches.
RECURSIVE Parsed(_, _)
Parsed(fetches, bad) ==
  IF fetches = <<>> THEN <<>>
  ELSE (IF Head(fetches) \in bad THEN <<>> ELSE <<Head(fetches)>>)
         \o Parsed(Tail(fetches), bad)

RECURSIVE Skipped(_, _)
Skipped(fetches, bad) ==
  IF fetches = <<>> THEN <<>>
  ELSE (IF Head(fetches) \in bad THEN <<Head(fetches)>> ELSE <<>>)
         \o Skipped(Tail(fetches), bad)

\* The FETCH responses for the range lo:hi as the application keeps them:
\* in the order the server sends them, without those that come out of the
\* stream as Err (filter_map(|r| r.ok())).
Responses(mbox, lo, hi) ==
  SelectSeq(mbox.order, LAMBDA m : lo <= m /\ m <= hi /\ m \notin mbox.lost)

\* What a call leaves in pageOp.
PageResult(op, a, b, res, range, emails, exists, has_more, skipped) ==
  [op |-> op, a |-> a, b |-> b, res |-> res, range |-> range, emails |-> emails,
   total |-> exists, has_more |-> has_more, skipped |-> skipped]

\* fetch_emails_page once SELECT answered and when FETCH answers. The u32
\* subtraction and multiplications of start and end panic on overflow in a
\* build with overflow checks (checked) and wrap in a build without.
fetch_emails_page(mbox, page, limit, checked) ==
  LET exists == mbox.exists
      product == MulU32(page, limit)
      before == SubOneU32(page)
      product_before == MulU32(before.val, limit)
      start == ClampedFrom(exists, product.val, 1)
      end == ClampedFrom(exists, product_before.val, 0)
      fetches == Responses(mbox, start, end)
  IN IF exists = 0
       THEN PageResult("page", page, limit, "Ok", <<>>, <<>>, 0, FALSE, <<>>)
     ELSE IF checked /\ (product.overflow \/ before.overflow \/ product_before.overflow)
       THEN PageResult("page", page, limit, "panic", <<>>, <<>>, 0, FALSE, <<>>)
     ELSE IF end < start
       THEN PageResult("page", page, limit, "Ok", <<>>, <<>>, exists, FALSE, <<>>)
     ELSE PageResult("page", page, limit, "Ok", <<start, end>>,
                     Reverse(Parsed(fetches, mbox.bad)), exists, start > 1,
                     Skipped(fetches, mbox.bad))

\* x.min(n) for a u32 x and an n below Half
MinU32(x, n) == IF x[1] > 0 THEN n ELSE Min(x[2], n)

\* The headers left in the order of the responses.
SortByDisplayIndex_None(emails, exists) == emails

\* imap_start with the + 1 left out.
RangeImapStart_NoPlusOne(exists, clamped_end) == Max(exists - clamped_end, 1)

\* let imap_start = (total - clamped_end + 1).max(1);
RangeImapStart(exists, clamped_end) == Max(exists - clamped_end + 1, 1)

\* emails.sort_by_key(|e| e.display_index), display_index = total - seq:
\* a stable insertion of each header after those whose key is not above its.
RECURSIVE InsertByIndex(_, _, _)
InsertByIndex(seqno, sorted, exists) ==
  IF sorted = <<>> THEN <<seqno>>
  ELSE IF exists - seqno < exists - Head(sorted) THEN <<seqno>> \o sorted
  ELSE <<Head(sorted)>> \o InsertByIndex(seqno, Tail(sorted), exists)

RECURSIVE SortByDisplayIndex(_, _)
SortByDisplayIndex(emails, exists) ==
  IF emails = <<>> THEN <<>>
  ELSE InsertByIndex(emails[Len(emails)],
                     SortByDisplayIndex(SubSeq(emails, 1, Len(emails) - 1), exists),
                     exists)

\* fetch_emails_range once SELECT answered and when FETCH answers.
fetch_emails_range(mbox, start_index, end_index) ==
  LET exists == mbox.exists
      clamped_start == MinU32(start_index, exists - 1)
      clamped_end == MinU32(end_index, exists)
      imap_start == RangeImapStart(exists, clamped_end)
      imap_end == exists - clamped_start
      fetches == Responses(mbox, imap_start, imap_end)
  IN IF exists = 0
       THEN PageResult("range", start_index, end_index, "Ok", <<>>, <<>>, 0,
                       FALSE, <<>>)
     ELSE IF clamped_start >= clamped_end
       THEN PageResult("range", start_index, end_index, "Ok", <<>>, <<>>, exists,
                       FALSE, <<>>)
     ELSE PageResult("range", start_index, end_index, "Ok", <<imap_start, imap_end>>,
                     SortByDisplayIndex(Parsed(fetches, mbox.bad), exists), exists,
                     FALSE, Skipped(fetches, mbox.bad))

\* The client's pages: page 1 starts over with the call's limit, the page
\* after the last one loaded with the same limit is added, any other page
\* call ends the sequence.
ScrollAfter(r) ==
  LET got == {r.emails[i] : i \in 1..Len(r.emails)} IN
    IF r.res # "Ok" THEN scroll
    ELSE IF r.a = U32(1)
      THEN [limit |-> r.b, k |-> 1, loaded |-> got, disjoint |-> TRUE]
    ELSE IF scroll.k >= 1 /\ r.b = scroll.limit /\ r.a = U32(scroll.k + 1)
      THEN [limit |-> r.b, k |-> scroll.k + 1, loaded |-> scroll.loaded \cup got,
            disjoint |-> scroll.disjoint /\ scroll.loaded \cap got = {}]
    ELSE NoScroll

\* imap_get_emails: fetch_emails_page in either build, or the Err of a failed
\* SELECT or FETCH.
FetchEmailsPage(page, limit) ==
  /\ \E r \in {fetch_emails_page(mailbox, page, limit, checked) : checked \in BOOLEAN}
            \cup {PageResult("page", page, limit, "Err", <<>>, <<>>, 0, FALSE, <<>>)} :
       /\ pageOp' = r
       /\ scroll' = ScrollAfter(r)
  /\ UNCHANGED mailbox

\* imap_get_emails_range
FetchEmailsRange(start_index, end_index) ==
  /\ pageOp' \in {fetch_emails_range(mailbox, start_index, end_index),
                  PageResult("range", start_index, end_index, "Err", <<>>, <<>>, 0,
                             FALSE, <<>>)}
  /\ UNCHANGED <<mailbox, scroll>>

\* The u32 arguments callers pass: small ones, and ones that make the
\* products leave the u32 range.
PageArgs == {U32(n) : n \in 0..MaxPage} \cup {<<1, 0>>, U32Max}
IndexArgs == {U32(n) : n \in 0..MaxExists} \cup {U32Max}

\* Mailboxes of at most MaxExists messages, at most one with a header that
\* does not parse, on a server that answers a FETCH in ascending order.
InitPageInput ==
  /\ mailbox \in {[exists |-> n, bad |-> b, order |-> Ascending(1, n), lost |-> {}] :
                    n \in 0..MaxExists, b \in {{}} \cup {{m} : m \in 1..MaxExists}}
  /\ mailbox.bad \subseteq 1..mailbox.exists
  /\ pageOp = NoPageOp
  /\ scroll = NoScroll

PageInit ==
  /\ InitCore /\ InitTLoc /\ InitCreated /\ InitListing /\ InitCodec /\ InitStore /\ InitAtt /\ InitServer
  /\ InitPageInput

\* What the fetches leave alone.
pageFrame == <<coreVars, tloc, created, listing, codec, maildir, storeOp, att, server>>

NextPage ==
  \/ \E page \in PageArgs, limit \in PageArgs :
       FetchEmailsPage(page, limit) /\ UNCHANGED pageFrame
  \/ \E start_index \in IndexArgs, end_index \in IndexArgs :
       FetchEmailsRange(start_index, end_index) /\ UNCHANGED pageFrame

\* Page and range fetches on one mailbox, in any order.
SpecPage == PageInit /\ [][NextPage]_vars

\* ------------------------------------------ properties: page and range fetch
\* C14: when the client has loaded pages 1..k with one limit >= 1 and
\* k*limit < N, the messages of these pages together are exactly the messages
\* of one range fetch over the display indices [0, k*limit), and no message
\* is in two of the pages.
C14_PagesMakeRange ==
  (/\ pageOp.op = "range" /\ pageOp.res = "Ok"
   /\ scroll.k >= 1
   /\ scroll.limit[1] = 0 /\ scroll.limit[2] >= 1
   /\ scroll.k * scroll.limit[2] < mailbox.exists
   /\ pageOp.a = U32(0)
   /\ pageOp.b = U32(scroll.k * scroll.limit[2]))
  => /\ {pageOp.emails[i] : i \in 1..Len(pageOp.emails)} = scroll.loaded
     /\ scroll.disjoint

\* C14 witness: pages 1, 2, 3 of limit 1 were loaded from a mailbox of 4
\* messages, then the range [0, 3) was fetched: messages 4, 3, 2 both ways.
C14_Witness ==
  /\ pageOp.op = "range" /\ pageOp.res = "Ok"
  /\ pageOp.a = U32(0) /\ pageOp.b = U32(3)
  /\ mailbox.exists = 4 /\ mailbox.bad = {}
  /\ scroll = [limit |-> U32(1), k |-> 3, loaded |-> {2, 3, 4}, disjoint |-> TRUE]
  /\ pageOp.emails = <<4, 3, 2>>

\* page*limit and (page-1)*limit as the integers they are, compared with a
\* mailbox size of the bounds: "big" when Half or more.
PageTimesLimit(page, limit) ==
  LET p == MulU32(page, limit) IN
    [big |-> p.overflow \/ p.val[1] > 0, val |-> p.val[2]]
BeforeTimesLimit(page, limit) ==
  LET q == MulU32(SubOneU32(page).val, limit) IN
    [big |-> q.overflow \/ q.val[1] > 0, val |-> q.val[2]]

\* start = max(1, N - page*limit + 1)
StartOf(exists, page, limit) ==
  LET p == PageTimesLimit(page, limit) IN
    IF p.big THEN 1 ELSE Max(exists - p.val + 1, 1)

\* The headers are in strictly descending order of sequence number.
NewestFirst(emails) ==
  \A i \in 1..(Len(emails) - 1) : emails[i] > emails[i + 1]

\* A page call that got its answers from the server (or did not return).
PageCalled == pageOp.op = "page" /\ pageOp.res # "Err" /\ mailbox.exists >= 1

\* What C15 says of a call whose end is the number e.
PageIsWindow(e) ==
  LET start == StartOf(mailbox.exists, pageOp.a, pageOp.b) IN
    /\ pageOp.res = "Ok"
    /\ IF e < start
         THEN pageOp.range = <<>> /\ pageOp.emails = <<>> /\ ~pageOp.has_more
         ELSE /\ pageOp.range = <<start, e>>
              /\ NewestFirst(pageOp.emails)
              /\ {pageOp.emails[i] : i \in 1..Len(pageOp.emails)}
                    = (start..e) \ mailbox.bad
              /\ pageOp.has_more = (start > 1)

\* C15: for N >= 1, fetch_emails_page(page, limit) requests the sequence range
\* start = max(1, N - page*limit + 1) .. end = max(1, N - (page-1)*limit),
\* returns an empty list with hasMore = false when end < start, and otherwise
\* the headers newest first with hasMore = (start > 1).
C15_PageWindow ==
  PageCalled =>
    IF pageOp.a = U32(0)
      \* (page-1)*limit = -limit: end = N + limit, at least start
      THEN /\ pageOp.b[1] = 0
           /\ PageIsWindow(mailbox.exists + pageOp.b[2])
      ELSE LET q == BeforeTimesLimit(pageOp.a, pageOp.b) IN
             PageIsWindow(IF q.big THEN 1 ELSE Max(mailbox.exists - q.val, 1))

\* C16: when limit >= 1 and (page-1)*limit >= N >= 1, the page is not empty:
\* it is the page of sequence range 1:1, with hasMore = false.
C16_PastTheEndIsOneMessage ==
  (/\ PageCalled
   /\ pageOp.b # U32(0)
   /\ pageOp.a # U32(0)
   /\ LET q == BeforeTimesLimit(pageOp.a, pageOp.b) IN
        q.big \/ q.val >= mailbox.exists)
  => /\ pageOp.res = "Ok"
     /\ pageOp.range = <<1, 1>>
     /\ Len(pageOp.emails) + Len(pageOp.skipped) = 1
     /\ ~pageOp.has_more

\* The call computes its range without leaving the u32 range.
InU32Range(page, limit) ==
  /\ ~MulU32(page, limit).overflow
  /\ ~SubOneU32(page).overflow
  /\ ~MulU32(SubOneU32(page).val, limit).overflow

\* C17: for every u32 page and limit, page = 0, limit = 0 and products above
\* 2^32 - 1 included, fetch_emails_page does not panic and no subtraction or
\* multiplication of its range leaves the u32 range.
C17_PageArithmeticSafe ==
  PageCalled => (pageOp.res # "panic" /\ InU32Range(pageOp.a, pageOp.b))

\* C15 and C16 on the calls whose arithmetic stays in the u32 range.
PageWindowInRange ==
  (PageCalled /\ InU32Range(pageOp.a, pageOp.b))
    => (C15_PageWindow /\ C16_PastTheEndIsOneMessage)

\* ------------------------------------------- the server's FETCH responses
\* The orders in which a server may answer a FETCH of messages 1..n.
ResponseOrders(n) ==
  {o \in [1..n -> 1..n] : \A i, j \in 1..n : o[i] = o[j] => i = j}

OneOrNone(n) == {{}} \cup {{m} : m \in 1..n}

\* Mailboxes of at most MaxExists messages on a server that answers in any
\* order; at most one header does not parse, at most one response comes out
\* of the stream as Err.
InitResponsesInput ==
  /\ mailbox \in UNION {{[exists |-> n, bad |-> b, order |-> o, lost |-> l] :
                           b \in OneOrNone(n), o \in ResponseOrders(n),
                           l \in OneOrNone(n)} : n \in 0..MaxExists}
  /\ pageOp = NoPageOp
  /\ scroll = NoScroll

ResponsesInit ==
  /\ InitCore /\ InitTLoc /\ InitCreated /\ InitListing /\ InitCodec /\ InitStore /\ InitAtt /\ InitServer
  /\ InitResponsesInput

NextResponses ==
  \/ \E page \in {U32(1), U32(2)}, limit \in {U32(2), U32(MaxExists)} :
       FetchEmailsPage(page, limit) /\ UNCHANGED pageFrame
  \/ \E start_index \in {U32(0), U32(1)}, end_index \in {U32(2), U32(MaxExists)} :
       FetchEmailsRange(start_index, end_index) /\ UNCHANGED pageFrame

\* Page and range fetches against a server that answers in any order.
SpecResponses == ResponsesInit /\ [][NextResponses]_vars

\* The call sent a FETCH for a range and returned.
Fetched ==
  pageOp.op \in {"page", "range"} /\ pageOp.res = "Ok" /\ pageOp.range # <<>>

Times(seq, x) == Cardinality({i \in 1..Len(seq) : seq[i] = x})

\* C29: in a page or range fetch, a message whose response does not parse
\* does not abort the batch: the call succeeds, and every response the server
\* sent is once among the headers returned or once in the skipped list, not
\* both.
C29_EveryResponseOnce ==
  (pageOp.op \in {"page", "range"} /\ pageOp.res # "Err" /\ pageOp.res # "panic")
  => /\ pageOp.res = "Ok"
     /\ pageOp.range # <<>> =>
          \A m \in pageOp.range[1]..pageOp.range[2] :
            Times(pageOp.emails, m) + Times(pageOp.skipped, m) = 1

\* C29 on the responses that come out of the stream as Ok: those whose header
\* does not parse are in the skipped list, the others are returned.
OkResponsesOnce ==
  Fetched =>
    \A m \in pageOp.range[1]..pageOp.range[2] :
      /\ m \in mailbox.lost =>
           Times(pageOp.emails, m) + Times(pageOp.skipped, m) = 0
      /\ m \in mailbox.bad \ mailbox.lost =>
           Times(pageOp.emails, m) = 0 /\ Times(pageOp.skipped, m) = 1
      /\ m \notin mailbox.bad \cup mailbox.lost =>
           Times(pageOp.emails, m) = 1 /\ Times(pageOp.skipped, m) = 0

\* C30: a range fetch does not depend on the order of the responses: for a
\* mailbox and an index range, whatever the order the server answers in, the
\* headers returned are the same sequence, that of strictly ascending
\* display_index = N - sequence number.
C30_RangeOrderIndependent ==
  (pageOp.op = "range" /\ Fetched)
  => /\ \A i \in 1..(Len(pageOp.emails) - 1) :
          mailbox.exists - pageOp.emails[i]
            < mailbox.exists - pageOp.emails[i + 1]
     /\ {pageOp.emails[i] : i \in 1..Len(pageOp.emails)}
          = (pageOp.range[1]..pageOp.range[2]) \ (mailbox.bad \cup mailbox.lost)

\* C30 witness: the server answered the FETCH of 1:3 with 3, 1, 2 and the
\* range fetch returned 3, 2, 1.
C30_Witness ==
  /\ pageOp.op = "range" /\ Fetched
  /\ mailbox.exists = 4 /\ mailbox.bad = {} /\ mailbox.lost = {}
  /\ mailbox.order = <<3, 1, 4, 2>>
  /\ pageOp.range = <<1, 3>>
  /\ pageOp.emails = <<3, 2, 1>>

\* ------------------------------------------------- attachment heuristics
\* A message is a tree of parts: a leaf with its Content-Type, its
\* Content-Disposition header ("none" when absent), its Content-ID, the
\* filename parameter of the disposition, the name parameter of the type, the
\* size of its body and, for a text part, the body; an embedded message
\* (message/rfc822) with the same headers and the tree of the message in it;
\* or a multipart with its bodies.
MaxParts == 2
TrackingPixelSize == 5000

\* Option<T>
None == [some |-> FALSE]
Some(v) == [some |-> TRUE, val |-> v]

TextPlain == <<"t", "e", "x", "t", "/", "p", "l", "a", "i", "n">>
TextHtml == <<"t", "e", "x", "t", "/", "h", "t", "m", "l">>
ImagePng == <<"i", "m", "a", "g", "e", "/", "p", "n", "g">>
ApplicationPdf ==
  <<"a", "p", "p", "l", "i", "c", "a", "t", "i", "o", "n", "/", "p", "d", "f">>
\* imap_proto gives the type of an embedded message in upper case.
MessageRfc822 ==
  <<"M", "E", "S", "S", "A", "G", "E", "/", "R", "F", "C", "8", "2", "2">>
TextPrefix == <<"t", "e", "x", "t", "/">>
MultipartPrefix == <<"m", "u", "l", "t", "i", "p", "a", "r", "t", "/">>
ImagePrefix == <<"i", "m", "a", "g", "e", "/">>
CidPrefix == <<"c", "i", "d", ":">>
\* A Content-ID header, an HTML body referring to it, one that does not.
ContentIdA == <<"<", "a", ">">>
HtmlCidA == <<"c", "i", "d", ":", "a">>
HtmlNoCid == <<"<", "p", ">">>
FileName == <<"f">>

Leaf(content_type, disposition, content_id, filename, name, size, body) ==
  [kind |-> "leaf", content_type |-> content_type,
   disposition |-> disposition, content_id |-> content_id,
   filename |-> filename, name |-> name, size |-> size, body |-> body]

Message(disposition, content_id, filename, embedded) ==
  [kind |-> "message", content_type |-> MessageRfc822,
   disposition |-> disposition, content_id |-> content_id,
   filename |-> filename, name |-> None, size |-> TrackingPixelSize,
   body |-> <<>>, embedded |-> embedded]

Multipart(bodies) == [kind |-> "multipart", bodies |-> bodies]

Dispositions == {"none", "inline", "attachment"}

TextLeaves ==
  {Leaf(TextPlain, d, None, None, None, TrackingPixelSize, <<>>) :
     d \in Dispositions}
  \cup {Leaf(TextHtml, d, None, None, None, TrackingPixelSize, b) :
     d \in Dispositions, b \in {HtmlNoCid, HtmlCidA}}

FileLeaves ==
  {Leaf(t, d, id, f, n, size, <<>>) :
     t \in {ImagePng, ApplicationPdf},
     d \in Dispositions, id \in {None, Some(ContentIdA)},
     f \in {None, Some(FileName)}, n \in {None, Some(FileName)},
     size \in {TrackingPixelSize - 1, TrackingPixelSize}}

\* The messages embedded: a text, a file sent as attachment, an inline image.
EmbeddedBodies ==
  {Leaf(TextPlain, "none", None, None, None, TrackingPixelSize, <<>>),
   Leaf(ApplicationPdf, "attachment", None, Some(FileName), None,
        TrackingPixelSize, <<>>),
   Leaf(ImagePng, "inline", Some(ContentIdA), None, None,
        TrackingPixelSize - 1, <<>>)}

MessageParts ==
  {Message(d, id, f, b) :
     d \in Dispositions, id \in {None, Some(ContentIdA)},
     f \in {None, Some(FileName)}, b \in EmbeddedBodies}

Leaves == TextLeaves \cup FileLeaves \cup MessageParts

SeqsUpTo(S, n) == UNION {[1..k -> S] : k \in 1..n}

PartTrees == Leaves \cup {Multipart(b) : b \in SeqsUpTo(Leaves, MaxParts)}

\* The branch of the classifier on a part with inline disposition: with a
\* Content-ID it is embedded, else it counts when it has a filename.
InlinePart(bs) ==
  IF bs.content_id.some THEN FALSE
  ELSE IF bs.filename.some THEN TRUE
  ELSE FALSE

\* imap/mod.rs: the classifier of the listing, on the BODYSTRUCTURE.
RECURSIVE has_attachments_from_bodystructure(_)
has_attachments_from_bodystructure(bs) ==
  IF bs.kind = "multipart"
    THEN \E i \in 1..Len(bs.bodies) :
           has_attachments_from_bodystructure(bs.bodies[i])
    ELSE IF bs.disposition = "attachment" THEN TRUE
    ELSE LET mime == to_lowercase(bs.content_type) IN
      IF StartsWith(mime, TextPrefix) \/ StartsWith(mime, MultipartPrefix)
        THEN IF bs.kind = "message"
               THEN has_attachments_from_bodystructure(bs.embedded)
               ELSE FALSE
      ELSE IF bs.disposition = "inline" THEN InlinePart(bs)
      ELSE TRUE

\* mailparse: a part without a Content-Disposition header is Inline.
get_content_disposition(part) ==
  IF part.disposition = "attachment" THEN "Attachment" ELSE "Inline"

\* The leaves in the order the walk visits them; mailparse splits the body
\* of a multipart only, an embedded message is one part.
RECURSIVE WalkOrder(_)
Concat(seqs) ==
  LET RECURSIVE Cat(_)
      Cat(i) == IF i > Len(seqs) THEN <<>> ELSE seqs[i] \o Cat(i + 1)
  IN Cat(1)
WalkOrder(part) ==
  IF part.kind = "multipart"
    THEN Concat([i \in 1..Len(part.bodies) |-> WalkOrder(part.bodies[i])])
    ELSE <<part>>

IsCollected(part) ==
  \/ get_content_disposition(part) = "Attachment"
  \/ /\ get_content_disposition(part) = "Inline"
     /\ ~StartsWith(to_lowercase(part.content_type), TextPrefix)

\* part.get_body_raw() is Ok: the body decodes by the part's transfer
\* encoding (a part that says nothing about it decodes).
BodyRawOk(part) == "raw_ok" \in DOMAIN part => part.raw_ok

\* size = part.get_body_raw().map(|b| b.len()).unwrap_or(0)
LightAttachment(part) ==
  [filename |-> IF part.filename.some THEN part.filename ELSE part.name,
   content_type |-> to_lowercase(part.content_type),
   content_id |-> part.content_id,
   size |-> IF BodyRawOk(part) THEN part.size ELSE 0]

\* The first HTML body the walk meets.
FirstHtml(leaves) ==
  LET at == {i \in 1..Len(leaves) :
               /\ ~IsCollected(leaves[i])
               /\ to_lowercase(leaves[i].content_type) = TextHtml}
  IN IF at = {} THEN None
     ELSE Some(leaves[CHOOSE i \in at : \A j \in at : i <= j].body)

\* main.rs: walk_mime_parts_light, the attachments and the HTML body.
walk_mime_parts_light(part) ==
  LET leaves == WalkOrder(part)
      kept == SelectSeq(leaves, IsCollected)
  IN [attachments |-> [i \in 1..Len(kept) |-> LightAttachment(kept[i])],
      html_body |-> FirstHtml(leaves)]

\* str::trim_start_matches(c), str::trim_end_matches(c)
RECURSIVE trim_start_matches(_, _)
trim_start_matches(str, c) ==
  IF str # <<>> /\ Head(str) = c THEN trim_start_matches(Tail(str), c) ELSE str

RECURSIVE trim_end_matches(_, _)
trim_end_matches(str, c) ==
  IF str # <<>> /\ str[Len(str)] = c
    THEN trim_end_matches(SubSeq(str, 1, Len(str) - 1), c)
    ELSE str

\* str::contains(pat)
Contains(str, pat) ==
  \E i \in 0..(Len(str) - Len(pat)) : SubSeq(str, i + 1, i + Len(pat)) = pat

is_real_attachment_NoTrim(content_type, content_id, filename, size, html) ==
  LET ct == to_lowercase(content_type) IN
    IF ~StartsWith(ct, ImagePrefix) THEN TRUE
    ELSE IF /\ content_id.some /\ html.some
            /\ Contains(html.val, CidPrefix \o content_id.val)
      THEN FALSE
    ELSE IF ~filename.some /\ size < TrackingPixelSize THEN FALSE
    ELSE TRUE

is_real_attachment_IdIsEmbedded(content_type, content_id, filename, size, html) ==
  LET ct == to_lowercase(content_type) IN
    IF ~StartsWith(ct, ImagePrefix) THEN TRUE
    ELSE IF content_id.some THEN FALSE
    ELSE IF ~filename.some /\ size < TrackingPixelSize THEN FALSE
    ELSE TRUE

is_real_attachment(content_type, content_id, filename, size, html) ==
  LET ct == to_lowercase(content_type) IN
    IF ~StartsWith(ct, ImagePrefix) THEN TRUE
    ELSE IF /\ content_id.some /\ html.some
            /\ LET bare_cid ==
                     trim_end_matches(trim_start_matches(content_id.val, "<"), ">")
               IN Contains(html.val, CidPrefix \o bare_cid)
      THEN FALSE
    ELSE IF ~filename.some /\ size < TrackingPixelSize THEN FALSE
    ELSE TRUE

has_real_attachments(attachments, html) ==
  \E i \in 1..Len(attachments) :
    is_real_attachment(attachments[i].content_type, attachments[i].content_id,
                       attachments[i].filename, attachments[i].size, html)

\* The listing classifies the message from its BODYSTRUCTURE.
ParseHeaderFromFetch ==
  /\ att.stage = "message"
  /\ att' = [att EXCEPT !.stage = "listed",
               !.has_attachments = has_attachments_from_bodystructure(att.tree)]

\* The message is fetched and its MIME tree walked.
WalkMimeParts ==
  /\ att.stage = "listed"
  /\ LET w == walk_mime_parts_light(att.tree) IN
       att' = [att EXCEPT !.stage = "walked",
                 !.attachments = w.attachments, !.html_body = w.html_body]

\* A message read from the local store is classified from what the walk
\* collected (parse_eml_bytes and parse_eml_bytes_light).
ParseEmailLight ==
  /\ att.stage = "walked"
  /\ att' = [att EXCEPT !.stage = "parsed",
               !.real = has_real_attachments(att.attachments, att.html_body)]

\* A message fetched from the server (fetch_email_by_uid and
\* fetch_email_by_uid_light) has attachments when the walk collected any.
FetchEmailByUid ==
  /\ att.stage = "walked"
  /\ att' = [att EXCEPT !.stage = "fetched",
               !.real = att.attachments # <<>>]

InitAttInput ==
  \E tree \in PartTrees :
    att = [stage |-> "message", tree |-> tree, has_attachments |-> FALSE,
           attachments |-> <<>>, html_body |-> None, real |-> FALSE]

AttInit ==
  /\ InitCore /\ InitTLoc /\ InitCreated /\ InitListing /\ InitCodec /\ InitStore /\ InitPage /\ InitServer
  /\ InitAttInput

attFrame ==
  <<coreVars, tloc, created, listing, codec, maildir, storeOp, mailbox, pageOp, scroll, server>>

NextAtt ==
  \/ ParseHeaderFromFetch /\ UNCHANGED attFrame
  \/ WalkMimeParts /\ UNCHANGED attFrame
  \/ ParseEmailLight /\ UNCHANGED attFrame
  \/ FetchEmailByUid /\ UNCHANGED attFrame

\* One message, listed and then fetched or read from the store.
SpecAtt == AttInit /\ [][NextAtt]_vars

\* An inline PDF with a Content-ID is no attachment in the listing and a real
\* attachment once fetched.
InlinePdfWithId ==
  Leaf(ApplicationPdf, "inline", Some(ContentIdA), Some(FileName), None,
       TrackingPixelSize, <<>>)

InlinePdfClassified ==
  /\ ~has_attachments_from_bodystructure(InlinePdfWithId)
  /\ LET w == walk_mime_parts_light(InlinePdfWithId) IN
       has_real_attachments(w.attachments, w.html_body)

\* C20: the two attachment heuristics agree: for every part tree, the
\* classifier of the BODYSTRUCTURE reports an attachment if and only if
\* has_real_attachments, over the parts the MIME walk collected and the HTML
\* body it extracted, reports a real attachment.
C20_HeuristicsAgree ==
  att.stage = "parsed" => (att.has_attachments <=> att.real)

\* The two agree on the messages made of text parts and of files that are
\* not images and have the disposition attachment.
AgreeOnPlainMessages ==
  (/\ att.stage = "parsed"
   /\ \A i \in 1..Len(WalkOrder(att.tree)) :
        LET l == WalkOrder(att.tree)[i] IN
          \/ l.content_type \in {TextPlain, TextHtml}
          \/ l.content_type = ApplicationPdf /\ l.disposition = "attachment")
  => (att.has_attachments <=> att.real)

\* C21: a message surfaced to a caller, fetched from the server or read from
\* the local store, has has_attachments true if and only if one of its listed
\* attachments is real under is_real_attachment, and the parts that are not
\* real are still in the list.
C21_IndicatorIsRefinement ==
  att.stage \in {"parsed", "fetched"} =>
    /\ att.real <=> has_real_attachments(att.attachments, att.html_body)
    /\ att.attachments = walk_mime_parts_light(att.tree).attachments

\* C21 on the store path alone.
StoreIndicatorIsRefinement ==
  att.stage = "parsed" =>
    /\ att.real <=> has_real_attachments(att.attachments, att.html_body)
    /\ att.attachments = walk_mime_parts_light(att.tree).attachments

\* The listing has classified a message of one part that is not a multipart.
ListedOnePart ==
  att.stage \in {"listed", "walked", "parsed", "fetched"}
    /\ att.tree.kind \in {"leaf", "message"}

\* C24: in the classifier of the BODYSTRUCTURE, a part that is neither text
\* nor multipart, with inline disposition and a Content-ID, is no attachment
\* unless it has a filename parameter, and then it is one.
C24_InlineWithIdNeedsFilename ==
  (/\ ListedOnePart
   /\ ~StartsWith(to_lowercase(att.tree.content_type), TextPrefix)
   /\ att.tree.disposition = "inline"
   /\ att.tree.content_id.some)
  => (att.has_attachments <=> att.tree.filename.some)

\* C25: in the classifier of the BODYSTRUCTURE, an embedded message
\* (message/rfc822) whose disposition is not attachment is an attachment if
\* and only if the body structure of the message in it yields one.
C25_EmbeddedMessageRecurses ==
  (/\ ListedOnePart
   /\ att.tree.kind = "message"
   /\ att.tree.disposition # "attachment")
  => (att.has_attachments
        <=> has_attachments_from_bodystructure(att.tree.embedded))

\* ------------------------------------------- is_real_attachment, each input
ImagePngUpper == <<"I", "M", "A", "G", "E", "/", "P", "N", "G">>
ImageNoSlash == <<"i", "m", "a", "g", "e">>

ContentTypes == {ImagePng, ImagePngUpper, ImageNoSlash, ApplicationPdf, TextHtml}

ContentIds ==
  {None, Some(<<"a">>), Some(ContentIdA), Some(<<"<", "<", "a", ">">>),
   Some(<<"<", "b", ">">>), Some(<<"<", ">">>)}

HtmlBodies ==
  {None, Some(<<>>), Some(HtmlNoCid), Some(HtmlCidA),
   Some(<<"c", "i", "d", ":", "a", "b">>),
   Some(<<"x", "c", "i", "d", ":", "a", "x">>),
   Some(<<"c", "i", "d", ":", "<", "a", ">">>)}

Filenames == {None, Some(<<>>), Some(FileName)}

Sizes == {0, TrackingPixelSize - 1, TrackingPixelSize, TrackingPixelSize + 1}

InitRealInput ==
  \E ct \in ContentTypes, id \in ContentIds, f \in Filenames,
     size \in Sizes, html \in HtmlBodies :
    att = [stage |-> "attachment", content_type |-> ct, content_id |-> id,
           filename |-> f, size |-> size, html |-> html, real |-> FALSE]

RealInit ==
  /\ InitCore /\ InitTLoc /\ InitCreated /\ InitListing /\ InitCodec /\ InitStore /\ InitPage /\ InitServer
  /\ InitRealInput

\* has_real_attachments asks is_real_attachment of one attachment.
ClassifyAttachment ==
  /\ att.stage = "attachment"
  /\ att' = [att EXCEPT !.stage = "classified",
               !.real = is_real_attachment(att.content_type, att.content_id,
                                           att.filename, att.size, att.html)]

NextReal == ClassifyAttachment /\ UNCHANGED attFrame

\* is_real_attachment on one attachment and one HTML body.
SpecReal == RealInit /\ [][NextReal]_vars

\* The type is image/..., in either case of the letters.
IsImageType(ct) ==
  /\ Len(ct) >= Len(ImagePrefix)
  /\ \A i \in 1..Len(ImagePrefix) :
       ct[i] \in {ImagePngUpper[i], ImagePng[i]}

\* The content id without the angle brackets around it: what is left between
\* the run of "<" at its start and the run of ">" at its end.
BareOf(cid) ==
  CHOOSE bare \in {SubSeq(cid, i, j) : i \in 1..(Len(cid) + 1), j \in 0..Len(cid)} :
    \E i \in 1..(Len(cid) + 1), j \in 0..Len(cid) :
      /\ i <= j + 1
      /\ bare = SubSeq(cid, i, j)
      /\ \A k \in 1..(i - 1) : cid[k] = "<"
      /\ \A k \in (j + 1)..Len(cid) : cid[k] = ">"
      /\ (i <= Len(cid) /\ cid[i] = "<") => i > j
      /\ (j >= 1 /\ cid[j] = ">") => i > j

\* cid:<id> occurs in the HTML body.
CidOccurs(html, bare) ==
  \E at \in 1..Len(html) :
    /\ at + Len(CidPrefix) + Len(bare) - 1 <= Len(html)
    /\ \A k \in 1..Len(CidPrefix) : html[at + k - 1] = CidPrefix[k]
    /\ \A k \in 1..Len(bare) : html[at + Len(CidPrefix) + k - 1] = bare[k]

Referenced(content_id, html) ==
  content_id.some /\ html.some /\ CidOccurs(html.val, BareOf(content_id.val))

\* C22: is_real_attachment is this reference on every input: a part that is
\* not an image is real; an image whose content id, without its angle
\* brackets, occurs as cid:<id> in the HTML body is not real; an image with no
\* filename and a size under 5000 is not real; every other image, the unnamed
\* one of exactly 5000 bytes included, is real.
C22_IsRealAttachmentReference ==
  att.stage = "classified" =>
    att.real =
      (IF ~IsImageType(att.content_type) THEN TRUE
       ELSE IF Referenced(att.content_id, att.html) THEN FALSE
       ELSE IF ~att.filename.some /\ att.size < 5000 THEN FALSE
       ELSE TRUE)

\* C22 witness: a named image in upper case whose content id <<a> is
\* referred to by cid:ab has been classified as not real.
C22_Witness ==
  /\ att.stage = "classified"
  /\ att.content_type = ImagePngUpper
  /\ att.content_id = Some(<<"<", "<", "a", ">">>)
  /\ att.html = Some(<<"c", "i", "d", ":", "a", "b">>)
  /\ att.filename = Some(FileName)
  /\ ~att.real

\* C23: an image with a content id that the HTML body does not refer to (or
\* with no HTML body) is a real attachment, for every filename and every size.
C23_UnreferencedImageIsReal ==
  (/\ att.stage = "classified"
   /\ IsImageType(att.content_type)
   /\ att.content_id.some
   /\ ~Referenced(att.content_id, att.html))
  => att.real

\* C23 as it holds: such an image is real when it has a filename or is of
\* 5000 bytes or more; unnamed and smaller it is a tracking pixel, not real.
C23_UnreferencedImageIsRealUnlessPixel ==
  (/\ att.stage = "classified"
   /\ IsImageType(att.content_type)
   /\ att.content_id.some
   /\ ~Referenced(att.content_id, att.html))
  => (att.real <=> (att.filename.some \/ att.size >= 5000))

\* C23 witness: an unnamed image of 5000 bytes with content id <a>, in a
\* message whose HTML body has no cid:, has been classified as real.
C23_Witness ==
  /\ att.stage = "classified"
  /\ att.content_type = ImagePng
  /\ att.content_id = Some(ContentIdA)
  /\ att.html = Some(HtmlNoCid)
  /\ att.filename = None
  /\ att.size = TrackingPixelSize
  /\ att.real

\* ------------------------------------------------- delete and search
\* The server holds the messages of the selected mailbox: each is in the
\* mailbox ("INBOX"), in a folder it was moved to, or expunged, and has or
\* has not the \Deleted flag. accepts is the set of folders a UID MOVE into
\* which succeeds. sent is what the latest command sent to the server.
MaxServerUid == 2
ServerUids == 1..MaxServerUid

trash_folders == <<"Trash", "[Gmail]/Trash", "Deleted Items", "Deleted">>

Cmd(cmd, uid, folder, ok) ==
  [cmd |-> cmd, uid |-> uid, folder |-> folder, ok |-> ok]

\* pool.get_from_pool: a pooled session is probed with NOOP, and a new one is
\* made when there is none or the probe fails.
get_from_pool(how) ==
  CASE how = "pooled" -> <<Cmd("NOOP", 0, "", TRUE)>>
    [] how = "stale" -> <<Cmd("NOOP", 0, "", FALSE), Cmd("LOGOUT", 0, "", TRUE),
                          Cmd("LOGIN", 0, "", TRUE)>>
    [] how = "new" -> <<Cmd("LOGIN", 0, "", TRUE)>>
    [] how = "failed" -> <<Cmd("LOGIN", 0, "", FALSE)>>

Acquisitions == {"pooled", "stale", "new", "failed"}

\* UID STORE uid +FLAGS (\Deleted)
UidStoreDeleted(msgs, uid) ==
  IF msgs[uid].at = "INBOX" THEN [msgs EXCEPT ![uid].deleted = TRUE] ELSE msgs

\* EXPUNGE: every message of the mailbox that has the \Deleted flag goes.
Expunge_All(msgs, uid) ==
  [u \in DOMAIN msgs |->
     IF msgs[u].at = "INBOX" /\ msgs[u].deleted
       THEN [msgs[u] EXCEPT !.at = "expunged"] ELSE msgs[u]]

\* UID EXPUNGE uid: the message goes if it has the \Deleted flag.
UidExpunge(msgs, uid) ==
  IF msgs[uid].at = "INBOX" /\ msgs[uid].deleted
    THEN [msgs EXCEPT ![uid].at = "expunged"] ELSE msgs

\* UID MOVE uid folder, when the server accepts it.
UidMove(msgs, uid, folder) ==
  IF msgs[uid].at = "INBOX" THEN [msgs EXCEPT ![uid].at = folder] ELSE msgs

\* The loop over trash_folders with no break: every folder is tried.
MoveAttempts_NoBreak(uid, accepts) ==
  [i \in 1..Len(trash_folders) |->
     Cmd("UID MOVE", uid, trash_folders[i], trash_folders[i] \in accepts)]

\* The loop over trash_folders: a UID MOVE for each folder in order, up to
\* and including the first that succeeds.
MoveAttempts(uid, accepts) ==
  LET firstOk == {i \in 1..Len(trash_folders) :
                    /\ trash_folders[i] \in accepts
                    /\ \A j \in 1..(i - 1) : trash_folders[j] \notin accepts}
      last == IF firstOk = {} THEN Len(trash_folders)
              ELSE CHOOSE i \in firstOk : TRUE
  IN [i \in 1..last |->
        Cmd("UID MOVE", uid, trash_folders[i], trash_folders[i] \in accepts)]

\* imap::delete_email on a session: the messages afterwards, what was sent
\* and the result. select_ok, store_ok and expunge_ok are the server's
\* answers to SELECT, UID STORE and UID EXPUNGE.
delete_email(msgs, accepts, uid, permanent, select_ok, store_ok, expunge_ok) ==
  LET select == <<Cmd("SELECT", 0, "INBOX", select_ok)>>
      store == <<Cmd("UID STORE", uid, "", store_ok)>>
      stored == IF store_ok THEN UidStoreDeleted(msgs, uid) ELSE msgs
  IN
  IF ~select_ok THEN [msgs |-> msgs, sent |-> select, res |-> "Err"]
  ELSE IF permanent THEN
    IF ~store_ok
      THEN [msgs |-> msgs, sent |-> select \o store, res |-> "Err"]
      ELSE [msgs |-> IF expunge_ok THEN UidExpunge(stored, uid) ELSE stored,
            sent |-> select \o store
                       \o <<Cmd("UID EXPUNGE", uid, "", expunge_ok)>>,
            res |-> IF expunge_ok THEN "Ok" ELSE "Err"]
  ELSE
    LET moves == MoveAttempts(uid, accepts)
        moved == \E i \in 1..Len(moves) : moves[i].ok
        into == {moves[i].folder : i \in {j \in 1..Len(moves) : moves[j].ok}}
        after == IF moved
                   THEN UidMove(msgs, uid, CHOOSE f \in into : TRUE)
                   ELSE msgs
    IN IF moved
         THEN [msgs |-> after, sent |-> select \o moves, res |-> "Ok"]
         ELSE [msgs |-> stored, sent |-> select \o moves \o store,
               res |-> IF store_ok THEN "Ok" ELSE "Err"]

\* A call of imap::delete_email on a session.
DeleteEmail(uid, permanent, select_ok, store_ok, expunge_ok) ==
  /\ server.stage \in {"ready", "done"}
  /\ LET d == delete_email(server.msgs, server.accepts, uid, permanent,
                           select_ok, store_ok, expunge_ok)
     IN server' = [server EXCEPT !.stage = "done",
                     !.msgs = d.msgs,
                     !.sent = d.sent,
                     !.op = [name |-> "delete", uid |-> uid,
                             permanent |-> permanent, res |-> d.res]]

\* chrono::NaiveDate::parse_from_str(s, "%Y-%m-%d") on the strings used here.
ValidDate == <<"2", "0", "2", "4", "-", "0", "1", "-", "0", "2">>
MalformedDate == <<"0", "2", "/", "0", "1", "/", "2", "0", "2", "4">>
ParsesAsDate(str) == str = ValidDate

\* search_emails: the parts of the criteria, from the arguments.
CriteriaParts(query, from_filter, subject_filter, since, before) ==
  (IF query.some /\ query.val # <<>> THEN <<"TEXT">> ELSE <<>>)
  \o (IF from_filter.some /\ from_filter.val # <<>> THEN <<"FROM">> ELSE <<>>)
  \o (IF subject_filter.some /\ subject_filter.val # <<>>
        THEN <<"SUBJECT">> ELSE <<>>)
  \o (IF since.some /\ since.val # <<>> /\ ParsesAsDate(since.val)
        THEN <<"SINCE">> ELSE <<>>)
  \o (IF before.some /\ before.val # <<>> /\ ParsesAsDate(before.val)
        THEN <<"BEFORE">> ELSE <<>>)

\* imap::search_emails on a session: what was sent, the uids found and the
\* result; found is the server's answer to UID SEARCH.
search_emails(criteria_parts, select_ok, found) ==
  LET select == <<Cmd("SELECT", 0, "INBOX", select_ok)>>
      search == <<Cmd("UID SEARCH", 0, "", TRUE)>>
      fetch == <<Cmd("UID FETCH", 0, "", TRUE)>>
  IN
  IF ~select_ok THEN [sent |-> select, uids |-> {}, res |-> "Err"]
  ELSE IF criteria_parts = <<>>
    THEN [sent |-> select, uids |-> {}, res |-> "Ok"]
  ELSE IF found = {}
    THEN [sent |-> select \o search, uids |-> {}, res |-> "Ok"]
  ELSE [sent |-> select \o search \o fetch, uids |-> found, res |-> "Ok"]

\* commands.rs: imap_search_emails, on a session of the background pool.
ImapSearchEmails(query, from_filter, subject_filter, since, before, how, select_ok, found) ==
  /\ server.stage \in {"ready", "done"}
  /\ found \subseteq {u \in ServerUids : server.msgs[u].at = "INBOX"}
  /\ LET parts == CriteriaParts(query, from_filter, subject_filter, since, before)
         r == IF how = "failed"
                THEN [sent |-> <<>>, uids |-> {}, res |-> "Err"]
                ELSE search_emails(parts, select_ok, found)
     IN server' = [server EXCEPT !.stage = "done",
                     !.sent = get_from_pool(how) \o r.sent,
                     !.op = [name |-> "search", criteria |-> parts,
                             uids |-> r.uids, res |-> r.res]]

Queries == {None, Some(<<>>), Some(<<"q">>)}
Filters == {None, Some(<<"f">>)}
Dates == {None, Some(<<>>), Some(MalformedDate), Some(ValidDate)}

InitServerInput ==
  \E msgs \in [ServerUids -> {[at |-> "INBOX", deleted |-> FALSE],
                              [at |-> "INBOX", deleted |-> TRUE]}],
     accepts \in SUBSET {trash_folders[i] : i \in 1..Len(trash_folders)} :
    server = [stage |-> "ready", msgs |-> msgs, accepts |-> accepts,
              sent |-> <<>>, op |-> [name |-> "none"]]

DeleteInit ==
  /\ InitCore /\ InitTLoc /\ InitCreated /\ InitListing /\ InitCodec /\ InitStore /\ InitPage /\ InitAtt
  /\ InitServerInput

serverFrame ==
  <<coreVars, tloc, created, listing, codec, maildir, storeOp, mailbox, pageOp, scroll, att>>

NextDelete ==
  \E uid \in ServerUids, permanent \in BOOLEAN,
     select_ok \in BOOLEAN, store_ok \in BOOLEAN, expunge_ok \in BOOLEAN :
    DeleteEmail(uid, permanent, select_ok, store_ok, expunge_ok)
      /\ UNCHANGED serverFrame

\* Deletes on one mailbox, one after the other.
SpecDelete == DeleteInit /\ [][NextDelete]_vars

\* A mailbox of messages none of which is flagged.
SearchInit ==
  /\ InitCore /\ InitTLoc /\ InitCreated /\ InitListing /\ InitCodec /\ InitStore /\ InitPage /\ InitAtt
  /\ server = [stage |-> "ready",
               msgs |-> [u \in ServerUids |-> [at |-> "INBOX", deleted |-> FALSE]],
               accepts |-> {}, sent |-> <<>>, op |-> [name |-> "none"]]

NextSearch ==
  \E query \in Queries, from_filter \in Filters, subject_filter \in Filters,
     since \in Dates, before \in Dates, how \in Acquisitions,
     select_ok \in BOOLEAN, found \in SUBSET ServerUids :
    ImapSearchEmails(query, from_filter, subject_filter, since, before,
                     how, select_ok, found)
      /\ UNCHANGED serverFrame

\* Searches on one mailbox, one after the other.
SpecSearch == SearchInit /\ [][NextSearch]_vars

\* ------------------------------------------- properties: delete and search
\* The UID MOVE commands of the latest call, in the order sent.
MovesSent == SelectSeq(server.sent, LAMBDA c : c.cmd = "UID MOVE")

CmdsSent(cmd) == {i \in 1..Len(server.sent) : server.sent[i].cmd = cmd}

\* C26: a non-permanent delete tries the folders Trash, [Gmail]/Trash,
\* Deleted Items, Deleted in this order, moves the message into the first
\* whose move succeeds and tries none after it; it sets the \Deleted flag
\* only when every move failed; it never sends an expunge.
C26_TrashCandidatesInOrder ==
  (server.stage = "done" /\ server.op.name = "delete" /\ ~server.op.permanent
     /\ server.sent[1].ok)
  => /\ Len(MovesSent) >= 1 /\ Len(MovesSent) <= 4
     /\ \A i \in 1..Len(MovesSent) :
          /\ MovesSent[i].folder
               = <<"Trash", "[Gmail]/Trash", "Deleted Items", "Deleted">>[i]
          /\ MovesSent[i].uid = server.op.uid
          /\ MovesSent[i].ok = (MovesSent[i].folder \in server.accepts)
          /\ i < Len(MovesSent) => ~MovesSent[i].ok
     /\ Len(MovesSent) < 4 => MovesSent[Len(MovesSent)].ok
     /\ CmdsSent("UID STORE") # {}
          <=> (Len(MovesSent) = 4 /\ \A i \in 1..4 : ~MovesSent[i].ok)
     /\ \A i \in CmdsSent("UID STORE") :
          /\ i = Len(server.sent)
          /\ server.sent[i].uid = server.op.uid
     /\ CmdsSent("UID EXPUNGE") = {} /\ CmdsSent("EXPUNGE") = {}
     /\ \A i \in 1..Len(MovesSent) :
          MovesSent[i].ok => server.msgs[server.op.uid].at # "INBOX"

\* C26 witness: the server refuses Trash and [Gmail]/Trash and takes Deleted
\* Items and Deleted; message 1 was deleted and is in Deleted Items after
\* three moves were tried.
C26_Witness ==
  /\ server.stage = "done" /\ server.op.name = "delete"
  /\ ~server.op.permanent /\ server.op.uid = 1 /\ server.op.res = "Ok"
  /\ server.accepts = {"Deleted Items", "Deleted"}
  /\ Len(MovesSent) = 3
  /\ server.msgs[1].at = "Deleted Items"

\* C27: a permanent delete of uid u marks u deleted first and then expunges
\* u alone: every other message of the mailbox, those with the \Deleted flag
\* included, is as it was.
C27_PermanentDeleteExpungesOne ==
  [][(server'.stage = "done" /\ server'.op.name = "delete"
        /\ server'.op.permanent /\ server' # server)
     => LET u == server'.op.uid
            sent == server'.sent
        IN /\ \A v \in ServerUids \ {u} : server'.msgs[v] = server.msgs[v]
           /\ \A i \in 1..Len(sent) :
                /\ sent[i].cmd # "EXPUNGE"
                /\ sent[i].cmd = "UID EXPUNGE" =>
                     /\ sent[i].uid = u
                     /\ i > 1 /\ sent[i - 1].cmd = "UID STORE"
                     /\ sent[i - 1].uid = u /\ sent[i - 1].ok
           /\ server'.op.res = "Ok" =>
                /\ \E i \in 1..Len(sent) : sent[i].cmd = "UID EXPUNGE"
                /\ server'.msgs[u].at # "INBOX"]_vars

\* C27 witness: message 1 was deleted for good and is expunged, and message
\* 2, which has the \Deleted flag, is still in the mailbox.
C27_Witness ==
  /\ server.stage = "done" /\ server.op.name = "delete"
  /\ server.op.permanent /\ server.op.uid = 1 /\ server.op.res = "Ok"
  /\ server.msgs[1].at = "expunged"
  /\ server.msgs[2] = [at |-> "INBOX", deleted |-> TRUE]

\* C28: a search with empty criteria returns the empty result and exchanges
\* nothing with the server: no session is taken or probed, no mailbox is
\* selected and no search is sent.
C28_EmptySearchIsLocal ==
  (server.stage = "done" /\ server.op.name = "search"
     /\ server.op.criteria = <<>>)
  => /\ server.op.res = "Ok"
     /\ server.op.uids = {}
     /\ server.sent = <<>>

\* What holds of a search with empty criteria: once the session is there and
\* the mailbox selected, the result is empty and no search is sent.
EmptySearchSendsNoSearch ==
  (server.stage = "done" /\ server.op.name = "search"
     /\ server.op.criteria = <<>> /\ server.op.res = "Ok")
  => /\ server.op.uids = {}
     /\ CmdsSent("UID SEARCH") = {} /\ CmdsSent("UID FETCH") = {}


\* =====================================================================
\* The pool under configurations whose keys may coincide, and the sessions'
\* history: which configuration each was made with, which evictions it saw.
\* =====================================================================
\* ImapConfig values whose email or host holds the separator of conn_key.
KeyAccounts ==
  { [email |-> <<"a", "-", "b">>, host |-> <<"c">>],
    [email |-> <<"a">>, host |-> <<"b", "-", "c">>],
    [email |-> <<"a">>, host |-> <<"c">>] }

\* create_imap_session(config): the session is connected to config.host and
\* logged in as config.email.
MadeWith(th) ==
  IF pc'[th] = GetOkPc(th)
    THEN [created EXCEPT ![loc'[th].session] =
            [config |-> loc[th].account, by |-> NoThread, evicted |-> FALSE]]
    ELSE created

\* disconnect(config) is called by th: the sessions made with config so far.
EvictBegun(th, account) ==
  [s \in Sessions |->
     IF created[s].config = account THEN [created[s] EXCEPT !.by = th]
                                    ELSE created[s]]

\* disconnect returned to th, if this step ends it.
EvictDone(th) ==
  IF pc'[th] = "idle"
    THEN [s \in Sessions |->
            IF created[s].by = th
              THEN [created[s] EXCEPT !.by = NoThread, !.evicted = TRUE]
              ELSE created[s]]
    ELSE created

keysFrame ==
  <<tloc, codec, maildir, storeOp, mailbox, pageOp, scroll, att, server, listing>>

KeysStep(th) ==
  \/ \E kind \in PoolNames, account \in KeyAccounts : WithStart(th, kind, account) /\ UNCHANGED auxVars
  \/ Noop(th) /\ UNCHANGED auxVars
  \/ Create(th) /\ created' = MadeWith(th) /\ UNCHANGED keysFrame
  \/ OpDone(th) /\ UNCHANGED auxVars
  \/ RetLogout(th) /\ UNCHANGED auxVars
  \/ \E account \in KeyAccounts : Disconnect(th, account) /\ created' = EvictBegun(th, account) /\ UNCHANGED keysFrame
  \/ DisconnectNext(th) /\ created' = EvictDone(th) /\ UNCHANGED keysFrame
  \/ DiscLogout(th) /\ created' = EvictDone(th) /\ UNCHANGED keysFrame

NextKeys == \E th \in Callers : KeysStep(th)

\* Commands and evictions by any caller, for any of the configurations.
SpecKeys == Init /\ [][NextKeys]_vars

\* ----------------------------------------------- properties: the pool keys
\* A caller is working on a session it got from get_from_pool.
Working(th) == th \in Callers /\ pc[th] = "f" /\ loc[th].session # NoSession

\* C31: configurations that differ in address or host have different pool
\* keys, so the session a caller gets for one configuration is a session
\* that was made, and released, for that configuration: never one of a
\* configuration with another address or host.
C31_DistinctAccountsDistinctSlots ==
  \A th \in Callers :
    Working(th) => created[loc[th].session].config = loc[th].account

\* What holds: the session a caller gets was made for a configuration of the
\* same key.
SessionOfSameKey ==
  \A th \in Callers :
    Working(th) =>
      conn_key(created[loc[th].session].config) = conn_key(loc[th].account)

\* ----------------------------------------------- properties: the eviction
\* C38: once disconnect(config) has returned, no session that was made for
\* the configuration before that call is idle in a store again: a session
\* that was borrowed at the time is not put back when its command ends.
C38_EvictedNeverIdleAgain ==
  \A s \in Sessions : created[s].evicted => s \notin Idle

\* What holds: a session that disconnect found idle in a store is logged out
\* under the store's lock and is never idle again.
LoggedOutNeverIdle == \A s \in loggedOut : s \notin Idle

\* =====================================================================
\* list_mailboxes: the tree built from the flat LIST answer
\* =====================================================================
\* Most mailboxes in one LIST answer.
MaxBoxes == 3

\* Name::name() of the mailboxes a server may list.
BoxPaths ==
  { <<"a">>, <<"b">>, <<"a", "/", "b">>, <<"b", "/", "a">>,
    <<"a", "/", "b", "/", "a">> }

\* MailboxInfo { path, delimiter, children: Vec::new(), .. }
MailboxInfo(path, delimiter) ==
  [path |-> path, delimiter |-> delimiter, children |-> <<>>]

\* str::rfind(delim): Some(bytes before the last occurrence), or None.
rfind(path, delim) ==
  LET at == {i \in 1..Len(path) : path[i] = delim} IN
    IF at = {} THEN None
    ELSE Some((CHOOSE i \in at : \A j \in at : j <= i) - 1)

\* path.rsplitn(2, delim).nth(1): what precedes the last delimiter, or None.
rsplitn_2_nth_1(path, delim) ==
  LET idx == rfind(path, delim) IN
    IF idx.some THEN Some(SubSeq(path, 1, idx.val)) ELSE None

\* let is_child = if let Some(ref delim) = mbox.delimiter { .. } else { false }
is_child(mbox, paths) ==
  IF mbox.delimiter.some
    THEN LET idx == rfind(mbox.path, mbox.delimiter.val) IN
           IF idx.some
             THEN \E i \in 1..Len(paths) : paths[i] = SubSeq(mbox.path, 1, idx.val)
             ELSE FALSE
    ELSE FALSE

\* mbox.path.rsplitn(2, delim).nth(1).unwrap_or("")
parent_path(mbox) ==
  LET delim == IF mbox.delimiter.some THEN mbox.delimiter.val ELSE "/"
      before == rsplitn_2_nth_1(mbox.path, delim)
  IN IF before.some THEN before.val ELSE <<>>

\* for root in &mut result { if root.path == parent_path { push; break } }
\* if !attached { result.push(mbox) }
AttachOrPush(res, mbox) ==
  LET found == {k \in 1..Len(res) : res[k].path = parent_path(mbox)} IN
    IF found # {}
      THEN LET k == CHOOSE i \in found : \A j \in found : i <= j IN
             [res EXCEPT ![k].children = Append(@, mbox)]
      ELSE Append(res, mbox)

\* let paths: Vec<String> = all.iter().map(|m| m.path.clone()).collect()
PathsOf(all) == [i \in 1..Len(all) |-> all[i].path]

\* One iteration of `for mbox in all`.
BuildTreeStep ==
  /\ listing.next <= Len(listing.all)
  /\ LET mbox == listing.all[listing.next] IN
       listing' = [listing EXCEPT
         !.next = @ + 1,
         !.result = IF is_child(mbox, PathsOf(listing.all))
                      THEN AttachOrPush(@, mbox)
                      ELSE Append(@, mbox)]

\* The LIST answers: up to MaxBoxes mailboxes with different names, in the
\* order the server sent them; the server has a hierarchy delimiter or none.
Listings ==
  { <<>> } \cup
  UNION { { [i \in 1..n |-> MailboxInfo(f[i], d)] :
              f \in {g \in [1..n -> BoxPaths] :
                       \A i, j \in 1..n : i # j => g[i] # g[j]} } :
          n \in 1..MaxBoxes, d \in {None, Some("/")} }

InitListingInput ==
  \E all \in Listings : listing = [all |-> all, next |-> 1, result |-> <<>>]

ListingInit ==
  /\ InitCore /\ InitTLoc /\ InitCreated /\ InitCodec /\ InitStore
  /\ InitPage /\ InitAtt /\ InitServer
  /\ InitListingInput

listingFrame ==
  <<coreVars, tloc, created, codec, maildir, storeOp, mailbox, pageOp, scroll, att, server>>

NextListing == BuildTreeStep /\ UNCHANGED listingFrame

SpecListing == ListingInit /\ [][NextListing]_vars

\* ------------------------------------------ properties: the mailbox tree
\* The nodes of a tree, at any depth a listing of MaxBoxes mailboxes allows.
Kids(nodes) == UNION { {n.children[k] : k \in 1..Len(n.children)} : n \in nodes }
Roots(res) == {res[k] : k \in 1..Len(res)}
Nodes(res) ==
  Roots(res) \cup Kids(Roots(res)) \cup Kids(Kids(Roots(res)))

\* The computed parent path of a mailbox, if its name has a delimiter.
ParentOf(mbox) ==
  IF mbox.delimiter.some THEN rsplitn_2_nth_1(mbox.path, mbox.delimiter.val)
  ELSE None

\* How often a path is in the tree.
RECURSIVE CountIn(_, _)
CountIn(seq, path) ==
  IF seq = <<>> THEN 0
  ELSE (IF Head(seq).path = path THEN 1 ELSE 0)
       + CountIn(Head(seq).children, path) + CountIn(Tail(seq), path)

\* C32: a mailbox is attached as a child of the node already in the result,
\* at any depth, whose path is its computed parent path, and goes to the root
\* list only when there is no such node; every mailbox taken so far is in the
\* tree exactly once.
C32_AttachesUnderParentAtAnyDepth ==
  [][listing'.next = listing.next + 1 =>
       LET mbox == listing.all[listing.next]
           parent == ParentOf(mbox)
           known == parent.some /\ \E n \in Nodes(listing.result) : n.path = parent.val
       IN /\ IF known
               THEN \E n \in Nodes(listing'.result) :
                      /\ n.path = parent.val
                      /\ \E k \in 1..Len(n.children) : n.children[k].path = mbox.path
               ELSE \E k \in 1..Len(listing'.result) :
                      listing'.result[k].path = mbox.path
          /\ \A i \in 1..listing.next :
               CountIn(listing'.result, listing.all[i].path) = 1]_vars

\* What holds: every mailbox taken so far is in the tree exactly once, as a
\* root or as a child of a root whose path is its parent path.
EveryMailboxOnce ==
  /\ \A i \in 1..(listing.next - 1) :
       CountIn(listing.result, listing.all[i].path) = 1
  /\ \A k \in 1..Len(listing.result) :
       \A c \in 1..Len(listing.result[k].children) :
         /\ ParentOf(listing.result[k].children[c]) = Some(listing.result[k].path)
         /\ listing.result[k].children[c].children = <<>>

\* =====================================================================
\* The three walks of a stored message: parse_eml_bytes (walk_mime_parts),
\* parse_eml_bytes_light (walk_mime_parts_light) and maildir_read_attachment
\* (collect_attachment_parts)
\* =====================================================================
\* A leaf and whether its body decodes by its Content-Transfer-Encoding.
Encoded(leaf, ok) == leaf @@ [raw_ok |-> ok]

TextBody == <<"x">>
SubjectLine == <<"s">>
NoSubject == <<"(", "N", "o", " ", "S", "u", "b", "j", "e", "c", "t", ")">>

WalkLeaves ==
  {Encoded(Leaf(TextPlain, d, None, None, None, 1, TextBody), TRUE) :
     d \in {"none", "attachment"}}
  \cup {Encoded(Leaf(TextHtml, "none", None, None, None, 1, b), TRUE) :
     b \in {HtmlNoCid, HtmlCidA}}
  \cup {Encoded(Leaf(t, d, id, f, None, size, <<>>), ok) :
     t \in {ImagePng, ApplicationPdf}, d \in {"none", "attachment"},
     id \in {None, Some(ContentIdA)}, f \in {None, Some(FileName)},
     size \in {TrackingPixelSize - 1, TrackingPixelSize}, ok \in BOOLEAN}

WalkTrees == WalkLeaves \cup {Multipart(b) : b \in SeqsUpTo(WalkLeaves, MaxParts)}

\* The places, in the order of the walk, of the leaves a walk keeps.
KeptAt(leaves, Keep(_)) ==
  SelectSeq([i \in 1..Len(leaves) |-> i], LAMBDA i : Keep(leaves[i]))

\* The first text/plain body the walk meets: part.get_body().ok()
FirstText(leaves) ==
  LET at == {i \in 1..Len(leaves) :
               /\ ~IsCollected(leaves[i])
               /\ to_lowercase(leaves[i].content_type) = TextPlain}
  IN IF at = {} THEN None
     ELSE Some(leaves[CHOOSE i \in at : \A j \in at : i <= j].body)

\* collect_attachment_parts: out.push(part)
collect_attachment_parts(part) == KeptAt(WalkOrder(part), IsCollected)

\* walk_mime_parts: `if let Ok(body) = part.get_body_raw() { attachments.push(..) }`
walk_mime_parts(part) ==
  LET leaves == WalkOrder(part)
      kept == KeptAt(leaves, LAMBDA p : IsCollected(p) /\ BodyRawOk(p))
  IN [parts |-> kept,
      attachments |-> [i \in 1..Len(kept) |-> LightAttachment(leaves[kept[i]])],
      text_body |-> FirstText(leaves),
      html_body |-> FirstHtml(leaves)]

\* get_header("Subject").unwrap_or_else(|| "(No Subject)".to_string())
SubjectOf(msg) == IF msg.subject.some THEN msg.subject.val ELSE NoSubject

\* parse_eml_bytes
ParseEmlBytes ==
  /\ "full" \notin att.done
  /\ LET w == walk_mime_parts(att.tree) IN
       att' = [att EXCEPT !.done = @ \cup {"full"},
                 !.full = [subject |-> SubjectOf(att), text |-> w.text_body,
                           html |-> w.html_body, parts |-> w.parts,
                           attachments |-> w.attachments,
                           has_attachments |->
                             has_real_attachments(w.attachments, w.html_body)]]

\* parse_eml_bytes_light
ParseEmlBytesLight ==
  /\ "light" \notin att.done
  /\ LET w == walk_mime_parts_light(att.tree)
         leaves == WalkOrder(att.tree)
     IN
       att' = [att EXCEPT !.done = @ \cup {"light"},
                 !.light = [subject |-> SubjectOf(att), text |-> FirstText(leaves),
                            html |-> w.html_body,
                            parts |-> KeptAt(leaves, IsCollected),
                            attachments |-> w.attachments,
                            has_attachments |->
                              has_real_attachments(w.attachments, w.html_body)]]

\* maildir_read_attachment: the parts its attachment_index chooses from.
MaildirReadAttachment ==
  /\ "read" \notin att.done
  /\ att' = [att EXCEPT !.done = @ \cup {"read"},
               !.attach_parts = collect_attachment_parts(att.tree)]

NotParsed ==
  [subject |-> <<>>, text |-> None, html |-> None, parts |-> <<>>,
   attachments |-> <<>>, has_attachments |-> FALSE]

InitWalksInput ==
  \E tree \in WalkTrees, subject \in {None, Some(SubjectLine)} :
    att = [done |-> {}, tree |-> tree, subject |-> subject,
           full |-> NotParsed, light |-> NotParsed, attach_parts |-> <<>>]

WalksInit ==
  /\ InitCore /\ InitTLoc /\ InitCreated /\ InitListing /\ InitCodec
  /\ InitStore /\ InitPage /\ InitServer
  /\ InitWalksInput

NextWalks ==
  \/ ParseEmlBytes /\ UNCHANGED attFrame
  \/ ParseEmlBytesLight /\ UNCHANGED attFrame
  \/ MaildirReadAttachment /\ UNCHANGED attFrame

\* One stored message, parsed in full, parsed light and read for one of its
\* attachments, in any order.
SpecWalks == WalksInit /\ [][NextWalks]_vars

\* ---------------------------------------------- properties: the three walks
\* C33: the three walks keep the same leaves in the same order, so the i-th
\* attachment of the light message is the i-th part maildir_read_attachment
\* chooses from and the i-th attachment of the full message; the full and the
\* light parse agree on has_attachments, the subject and the body text.
C33_WalksAgree ==
  /\ {"light", "read"} \subseteq att.done => att.light.parts = att.attach_parts
  /\ {"light", "full"} \subseteq att.done =>
       /\ att.full.parts = att.light.parts
       /\ att.full.has_attachments = att.light.has_attachments
       /\ att.full.subject = att.light.subject
       /\ att.full.text = att.light.text

\* What holds: the light walk and collect_attachment_parts keep the same
\* leaves in the same order; the full parse agrees with the light one on the
\* subject and the bodies, and its attachments are those of the light parse
\* whose body decodes, in the same order.
LightAndCollectAgree ==
  /\ {"light", "read"} \subseteq att.done => att.light.parts = att.attach_parts
  /\ {"light", "full"} \subseteq att.done =>
       /\ att.full.subject = att.light.subject
       /\ att.full.text = att.light.text
       /\ att.full.html = att.light.html
       /\ att.full.parts =
            SelectSeq(att.light.parts,
                      LAMBDA i : BodyRawOk(WalkOrder(att.tree)[i]))

\* ------------------------------------------ properties: the auto-cache
\* C34: maildir_store_raw writes only when the uid has no file: when one is
\* stored the directory is left as it is, so an archived message keeps its
\* name, its flags and its content over any later light fetch.
C34_StoreRawSkipsExisting ==
  [][storeOp'.op = "store_raw" /\ find_file_by_uid(maildir, storeOp'.uid) # {}
       => maildir' = maildir]_vars

\* C34 witness: a light fetch of uid 1 found the archived file 1:2,AS, which
\* is still there with its content.
C34_Witness ==
  /\ storeOp.op = "store_raw" /\ storeOp.uid = 1 /\ storeOp.res = "Ok"
  /\ storeOp.found = build_maildir_filename(1, ArchiveFlags)
  /\ storeOp.content = 2
  /\ [name |-> build_maildir_filename(1, ArchiveFlags), content |-> 1] \in maildir

\* C36: a store operation that returns an error leaves the store as it was:
\* when maildir_store or the persist step of an archive task fails, the file
\* the uid had is still there with its name and its content.
C36_FailedStoreChangesNothing ==
  [][storeOp'.op \in {"store", "archive"} /\ storeOp'.res = "Err"
       => maildir' = maildir]_vars

\* What holds: a failed store operation changes no file of another uid, and
\* a failed maildir_store_raw changes nothing.
FailedStoreKeepsOthers ==
  [][storeOp'.op \in {"store", "archive", "store_raw"} /\ storeOp'.res = "Err"
       => /\ \A f \in maildir :
               f \notin find_file_by_uid(maildir, storeOp'.uid) => f \in maildir'
          /\ maildir' \subseteq maildir
          /\ storeOp'.op = "store_raw" => maildir' = maildir]_vars

\* =====================================================================
\* The writers of the local store running at the same time: archive tasks
\* on the runtime's threads, the auto-cache of a light fetch, and the
\* commands maildir_store, maildir_set_flags and maildir_delete
\* =====================================================================
\* Threads that are in a store function at the same time.
NumWriters == 2
Writers == 1..NumWriters

\* A writer that is in no store function.
IdleWriter == [op |-> "none", uid |-> 0, flags |-> <<>>, at |-> "idle", found |-> <<>>]

\* The file of dir that has this name, if it is still there.
Named(dir, name) == {f \in dir : f.name = name}

\* find_file_by_uid at the head of each of the five functions; what the
\* function does next depends on the function and on whether a file came back.
AfterFind(op, hit) ==
  IF op \in {"archive", "store"} THEN (IF hit THEN "remove" ELSE "write")
  ELSE IF op = "store_raw" THEN (IF hit THEN "idle" ELSE "write")
  ELSE IF op = "set_flags" THEN (IF hit THEN "rename" ELSE "idle")
  ELSE (IF hit THEN "unlink" ELSE "idle")

Enter(w, op, uid, flags) ==
  /\ storeOp[w].at = "idle"
  /\ \/ /\ find_file_by_uid(maildir, uid) = {}
        /\ storeOp' = [storeOp EXCEPT ![w] =
             IF AfterFind(op, FALSE) = "idle" THEN IdleWriter
             ELSE [op |-> op, uid |-> uid, flags |-> flags,
                   at |-> AfterFind(op, FALSE), found |-> <<>>]]
     \/ \E existing \in find_file_by_uid(maildir, uid) :
          storeOp' = [storeOp EXCEPT ![w] =
             IF AfterFind(op, TRUE) = "idle" THEN IdleWriter
             ELSE [op |-> op, uid |-> uid, flags |-> flags,
                   at |-> AfterFind(op, TRUE), found |-> existing.name]]
  /\ maildir' = maildir

\* let _ = fs::remove_file(&existing);
RemoveFound(w) ==
  /\ storeOp[w].at = "remove"
  /\ maildir' = maildir \ Named(maildir, storeOp[w].found)
  /\ storeOp' = [storeOp EXCEPT ![w].at = "write"]

\* decode, fs::write(cur_dir.join(&filename), &raw_bytes): the message of the
\* uid is written under the name built from the uid and the flags, or the
\* function returns Err.
WriteFile(w) ==
  /\ storeOp[w].at = "write"
  /\ \/ maildir' = FsWrite(maildir,
                           build_maildir_filename(storeOp[w].uid, storeOp[w].flags),
                           storeOp[w].uid)
     \/ maildir' = maildir
  /\ storeOp' = [storeOp EXCEPT ![w] = IdleWriter]

\* maildir_set_flags: if old_path != new_path { fs::rename(&old_path, &new_path)? }
RenameFound(w) ==
  /\ storeOp[w].at = "rename"
  /\ LET new_filename == build_maildir_filename(storeOp[w].uid, storeOp[w].flags)
         old == Named(maildir, storeOp[w].found)
     IN maildir' = IF storeOp[w].found # new_filename /\ old # {}
                     THEN FsRename(maildir, CHOOSE f \in old : TRUE, new_filename)
                     ELSE maildir
  /\ storeOp' = [storeOp EXCEPT ![w] = IdleWriter]

\* maildir_delete: fs::remove_file(&path)?
UnlinkFound(w) ==
  /\ storeOp[w].at = "unlink"
  /\ maildir' = maildir \ Named(maildir, storeOp[w].found)
  /\ storeOp' = [storeOp EXCEPT ![w] = IdleWriter]

\* Nothing is stored and no writer is in a store function.
RaceInit ==
  /\ InitCore /\ InitTLoc /\ InitCreated /\ InitListing /\ InitCodec
  /\ InitPage /\ InitAtt /\ InitServer
  /\ maildir = {}
  /\ storeOp = [w \in Writers |-> IdleWriter]

WriterStep(w) ==
  \/ \E uid \in StoreUids : Enter(w, "archive", uid, ArchiveFlags) /\ UNCHANGED storeFrame
  \/ \E uid \in StoreUids : Enter(w, "store_raw", uid, NoFlags) /\ UNCHANGED storeFrame
  \/ \E uid \in StoreUids, flags \in StoreFlagLists : Enter(w, "store", uid, flags) /\ UNCHANGED storeFrame
  \/ \E uid \in StoreUids, flags \in StoreFlagLists : Enter(w, "set_flags", uid, flags) /\ UNCHANGED storeFrame
  \/ \E uid \in StoreUids : Enter(w, "delete", uid, NoFlags) /\ UNCHANGED storeFrame
  \/ RemoveFound(w) /\ UNCHANGED storeFrame
  \/ WriteFile(w) /\ UNCHANGED storeFrame
  \/ RenameFound(w) /\ UNCHANGED storeFrame
  \/ UnlinkFound(w) /\ UNCHANGED storeFrame

NextRace == \E w \in Writers : WriterStep(w)

\* The five writers of one mailbox directory, step by step, on two threads.
SpecRace == RaceInit /\ [][NextRace]_vars

\* ------------------------------------- properties: the concurrent writers
\* C35: from an empty directory, under every interleaving of archive tasks
\* (also of one uid twice), the auto-cache, maildir_store, maildir_set_flags
\* and maildir_delete, the directory has at most one file for each uid, and
\* the lookup by uid only returns a file that holds the message of that uid.
C35_OneFilePerUid ==
  \A uid \in StoreUids :
    /\ Cardinality(find_file_by_uid(maildir, uid)) <= 1
    /\ \A f \in find_file_by_uid(maildir, uid) : f.content = uid

\* What holds: the lookup by uid only returns a file of that uid, and a uid
\* has at most one file for each set of flags.
LookupFindsOwnUid ==
  /\ \A uid \in StoreUids :
       \A f \in find_file_by_uid(maildir, uid) : f.content = uid
  /\ \A f, g \in maildir : f.name = g.name => f = g

\* =====================================================================
\* archive_emails and cancel_archive: the token in the managed state,
\* with archive runs that overlap
\* =====================================================================
\* archive_emails calls of the model, and the tasks each of them may spawn.
Runs == {1, 2}
NoRun == 0
RunOf(t) == IF t \in {TaskOf(1), TaskOf(2)} THEN 1 ELSE 2
TasksOf(r) == {t \in Tasks : RunOf(t) = r}

\* archive_emails: under the state's Mutex a new AtomicBool(false) is put in
\* the place of the token that was there; run works with the new one.
ArchiveEmailsAgain(r) ==
  /\ runPc[r] = "idle"
  /\ cancel' = [cancel EXCEPT !.current = r, !.token[r] = FALSE]
  /\ runPc' = [runPc EXCEPT ![r] = "spawning"]
  /\ pc' = pc

\* cancel_archive: state.0.lock().unwrap().store(true): the token that is in
\* the state now. (requested: the runs in progress at the time of the call.)
CancelArchiveCurrent ==
  /\ cancel' = [cancel EXCEPT
       !.token[cancel.current] = TRUE,
       !.requested = [r \in Runs |-> @[r] \/ runPc[r] \in {"spawning", "joining"}]]
  /\ UNCHANGED <<runPc, pc>>

\* run, `for uid in uids`: if cancel.load() { break; } set.spawn(..)
SpawnOrBreak(r) ==
  /\ runPc[r] = "spawning"
  /\ IF cancel.token[r] \/ \A t \in TasksOf(r) : pc[t] # "unspawned"
       THEN /\ runPc' = [runPc EXCEPT ![r] = "joining"]
            /\ pc' = pc
       ELSE /\ \E t \in TasksOf(r) :
                 /\ pc[t] = "unspawned"
                 /\ \A u \in TasksOf(r) : u < t => pc[u] # "unspawned"
                 /\ pc' = [pc EXCEPT ![t] = "permit"]
            /\ runPc' = runPc
  /\ cancel' = cancel

\* The task, after sem.acquire(): if cancel.load() { return; }
TaskCancelCheck(t) ==
  /\ pc[t] = "permit"
  /\ pc' = [pc EXCEPT ![t] = IF cancel.token[RunOf(t)] THEN "done" ELSE "fetch"]
  /\ UNCHANGED <<cancel, runPc>>

\* fetch_and_store and the progress event.
TaskFetchAndStore(t) ==
  /\ pc[t] = "fetch"
  /\ pc' = [pc EXCEPT ![t] = "done"]
  /\ UNCHANGED <<cancel, runPc>>

\* while set.join_next().await.is_some() {}, and the result.
JoinAll(r) ==
  /\ runPc[r] = "joining"
  /\ \A t \in TasksOf(r) : pc[t] \in {"unspawned", "done"}
  /\ runPc' = [runPc EXCEPT ![r] = "returned"]
  /\ UNCHANGED <<cancel, pc>>

\* The application has started: ArchiveCancelToken::default() is in the state.
CancelInit ==
  /\ imapPool = [background |-> {}, priority |-> {}]
  /\ lockOwner = [k \in PoolNames |-> NoThread]
  /\ nextSid = 1 /\ loggedOut = {} /\ opFailed = {}
  /\ pc = [th \in Threads |-> IF th \in Callers THEN "idle" ELSE "unspawned"]
  /\ loc = [th \in Threads |-> NoLoc]
  /\ runPc = [r \in Runs |-> "idle"]
  /\ total = 0 /\ spawned = 0 /\ sem = SemPermits
  /\ cancel = [current |-> NoRun, token |-> [r \in Runs \cup {NoRun} |-> FALSE],
               requested |-> [r \in Runs |-> FALSE]]
  /\ completed = 0 /\ errors = 0 /\ progress = NoProgress
  /\ result = [NoProgress EXCEPT !.total = 0] @@ [tag |-> "none"]
  /\ InitAux

cancelFrame ==
  <<imapPool, lockOwner, nextSid, loggedOut, opFailed, loc, total, spawned, sem, completed, errors, progress, result, auxVars>>

NextCancel ==
  \/ \E r \in Runs : ArchiveEmailsAgain(r) /\ UNCHANGED cancelFrame
  \/ CancelArchiveCurrent /\ UNCHANGED cancelFrame
  \/ \E r \in Runs : SpawnOrBreak(r) /\ UNCHANGED cancelFrame
  \/ \E t \in Tasks : TaskCancelCheck(t) /\ UNCHANGED cancelFrame
  \/ \E t \in Tasks : TaskFetchAndStore(t) /\ UNCHANGED cancelFrame
  \/ \E r \in Runs : JoinAll(r) /\ UNCHANGED cancelFrame

\* Two archive_emails calls and any number of cancel_archive calls.
SpecCancel == CancelInit /\ [][NextCancel]_vars

\* --------------------------------------- properties: the cancellation
\* C37: after a cancel_archive issued while a run is in progress no task of
\* that run starts to fetch and store, also when another archive_emails call
\* was started in between; a cancel issued before a run started does not
\* cancel that run.
C37_CancelReachesRunningRun ==
  [][/\ \A t \in Tasks :
          pc[t] = "permit" /\ pc'[t] = "fetch" => ~cancel.requested[RunOf(t)]
     /\ \A r \in Runs :
          runPc[r] = "idle" /\ runPc'[r] = "spawning" => ~cancel'.token[r]]_vars

\* What holds: a cancel is observed by the run that archive_emails started
\* last, and a run starts with a token no earlier cancel has set.
CancelReachesLatestRun ==
  [][/\ \A t \in Tasks :
          pc[t] = "permit" /\ pc'[t] = "fetch"
            => ~cancel.token[RunOf(t)]
     /\ cancel'.token[cancel.current] /\ ~cancel.token[cancel.current]
          => cancel'.token = [cancel.token EXCEPT ![cancel.current] = TRUE]
     /\ \A r \in Runs :
          runPc[r] = "idle" /\ runPc'[r] = "spawning" => ~cancel'.token[r]]_vars

\* ------------------------------------------ properties: the two counters
\* The tasks that have done their fetch_add.
Counted == {t \in Tasks : pc[t] \in {"load_c", "load_e", "load_cancel", "emit", "done"}}

\* C39: in every state of a run, in every progress event and in the result,
\* completed + errors <= total; each task adds one to exactly one of the two
\* counters, once, and a task that leaves on cancellation adds to neither and
\* emits no event.
C39_CountersWithinTotal ==
  /\ [](/\ completed + errors <= total
        /\ completed + errors = Cardinality(Counted)
        /\ progress.completed + progress.errors <= progress.total
        /\ result.completed + result.errors <= result.total)
  /\ [][/\ completed' + errors' \in {completed + errors, completed + errors + 1}
        /\ completed' >= completed /\ errors' >= errors
        /\ \A t \in Tasks :
             pc[t] # "cancelled" /\ pc'[t] = "cancelled"
               => completed' = completed /\ errors' = errors /\ progress' = progress]_vars

\* C39 witness: of three messages one was stored and one failed, the third
\* task left on cancellation, and run has returned.
C39_Witness ==
  /\ runPc = "done" /\ total = 3
  /\ completed = 1 /\ errors = 1
  /\ \E t \in Tasks : pc[t] = "cancelled"
  /\ result.completed = 1 /\ result.errors = 1
  /\ progress.completed + progress.errors = 2

\* ------------------------------------------ properties: the range fetch
\* A u32 of the model against a number below 2^16: x <= d, and d < x.
AtMost(x, d) == x[1] = 0 /\ x[2] <= d
Below(d, x) == x[1] > 0 \/ d < x[2]

\* header.display_index = Some(total - header.seq) of the headers returned.
DisplayIndexes ==
  [i \in 1..Len(pageOp.emails) |-> pageOp.total - pageOp.emails[i]]

RangeAnswered == pageOp.op = "range" /\ pageOp.res = "Ok"

\* C40: a range fetch only returns headers whose display_index is in
\* [start_index, end_index); with start_index >= N it returns none; and
\* N - sequence stays in the u32 range.
C40_RangeWithinInterval ==
  RangeAnswered =>
    /\ \A i \in 1..Len(pageOp.emails) :
         /\ DisplayIndexes[i] >= 0
         /\ AtMost(pageOp.a, DisplayIndexes[i])
         /\ Below(DisplayIndexes[i], pageOp.b)
    /\ ~AtMost(pageOp.a, pageOp.total - 1) => pageOp.emails = <<>>

\* What holds: the headers returned have a display_index in the clamped
\* interval [min(start_index, N - 1), min(end_index, N)), and N - sequence is
\* never negative.
RangeWithinClamped ==
  RangeAnswered =>
    \A i \in 1..Len(pageOp.emails) :
      /\ DisplayIndexes[i] >= 0
      /\ MinU32(pageOp.a, pageOp.total - 1) <= DisplayIndexes[i]
      /\ DisplayIndexes[i] < MinU32(pageOp.b, pageOp.total)


=============================================================================
